---- MODULE Spec2Model ----
(***************************************************************************)
(* Model of the taskman backend: the project and task controllers          *)
(* (src/controllers), the presence registry of src/socket.js and the       *)
(* cursor pagination of getAllTasks.                                       *)
(*                                                                         *)
(* An HTTP handler is an async function: it runs atomically between two    *)
(* awaits, so every handler is cut at its database calls.  A request slot  *)
(* (reqs[r]) holds one handler's position and the document it read.        *)
(* The socket handlers have no await: each one is a single action.         *)
(***************************************************************************)
EXTENDS Integers, Sequences, FiniteSets, TLC

\* ------------------------------------------------------------------ bounds
MaxProjects == 1      \* projects that can be created
MaxReqs == 4          \* HTTP requests issued in one behaviour
MaxInflight == 2      \* HTTP handlers between two awaits at the same time
MaxBodyMembers == 1   \* length of the members array in a createProject body
MaxSessions == 2      \* socket connections opened in one behaviour
MaxTasks == 1         \* tasks that can be created
PageTasks == 2        \* tasks in the collection that GET /api/tasks lists
MaxLimit == 2         \* largest ?limit= of a GET /api/tasks
SearchTasks == 2      \* tasks in the collection that searches run on
MaxSearchLimit == 1   \* largest ?limit= of a search
EditReqs == 3         \* requests issued on one existing task
FanoutReqs == 2       \* requests issued while sockets come and go
LiveWrites == 2       \* createTask and deleteTask calls during a listing
RouteReqs == 2        \* requests issued through the validated routes
StatsReqs == 3        \* requests issued while the dashboards are told

Users == {"u1", "u2"}
NoUser == "none"
ProjectIds == 1..MaxProjects
TaskIds == 1..MaxTasks
Slots == 1..MaxInflight
Sessions == 1..MaxSessions   \* socket ids, in the order the sockets connect
RoomIds == {1, 2}            \* project ids that clients name in socket events
NoRoom == 0                  \* null / undefined currentProject

VARIABLES
    projects,   \* Project collection: id -> [owner, members, v]
    tasks,      \* Task collection: id -> task document
    ntasks,     \* number of task ids generated so far
    now,        \* Date.now(), in ticks
    reqs,       \* HTTP handlers: slot -> position, arguments, document read
    nreq,       \* number of requests issued so far
    resp,       \* HTTP response sent by the handler step just taken, if any
    events,     \* socket events emitted by the handler step just taken, in order
    sock,       \* sockets: id -> [state, userId, rooms, currentProject]
    onlineUsers,        \* projectId -> (userId -> [userId, socketId])
    globalOnlineUsers,  \* userId -> [userId, socketId, currentProject]
    listing,    \* a client of GET /api/tasks: its query, the cursor it holds
                \* and the task ids the pages have given it so far
    result      \* the body of the HTTP response of the step just taken, for
                \* the handlers that answer a search or a read

httpVars == <<projects, tasks, ntasks, now, reqs, nreq>>
taskVars == <<tasks, ntasks, now>>
presVars == <<sock, onlineUsers, globalOnlineUsers>>
vars == <<projects, tasks, ntasks, now, reqs, nreq, resp, events, sock,
          onlineUsers, globalOnlineUsers, listing, result>>

\* ----------------------------------------------------------------- helpers
\* the step answered no search and no read
NoResult == [status |-> 0]

\* Array.prototype.includes / MongooseArray.includes
Includes(list, x) == \E i \in 1..Len(list) : list[i] = x

\* list.filter(m => m.toString() !== x)
FilterOut(list, x) == SelectSeq(list, LAMBDA m : m # x)

RECURSIVE SeqsUpTo(_, _)
SeqsUpTo(S, n) ==
    IF n = 0 THEN {<<>>}
    ELSE LET shorter == SeqsUpTo(S, n - 1)
         IN  shorter \cup {Append(s, x) : s \in shorter, x \in S}

\* req.body.members of createProject: absent, or an array of user ids
BodyMembers ==
    {[given |-> FALSE, list |-> <<>>]} \cup
    {[given |-> TRUE, list |-> l] : l \in SeqsUpTo(Users, MaxBodyMembers)}

Absent == "absent"    \* a field the request does not carry (undefined)
NoDate == 0           \* no dueDate (null / undefined)

\* the enums of the Task schema
Statuses == {"todo", "in-progress", "done"}
Priorities == {"low", "medium", "high"}

\* req.query of GET /api/tasks/project/:projectId; cursor 0, limit 0, Absent
\* are parameters that are not given
PageQuery(cursor, limit, status, assignee) ==
    [cursor |-> cursor, limit |-> limit, status |-> status,
     assignee |-> assignee]

NoPageQuery == PageQuery(0, 0, Absent, Absent)

\* a handler that keeps nothing of req.query or req.body beside its arg
NoInput == NoPageQuery

NoDoc ==
    [project |-> 0, title |-> Absent, description |-> Absent,
     status |-> Absent, priority |-> Absent, dueDate |-> NoDate,
     createdAt |-> 0, assignees |-> <<>>, comments |-> <<>>, v |-> 0]

IdleReq ==
    [op |-> "none", pc |-> "idle", user |-> NoUser, id |-> 0, arg |-> NoUser,
     snapV |-> 0, input |-> NoInput, snapList |-> <<>>, doc |-> NoDoc]

\* a new request takes the first handler slot that is not in use
Free(r) ==
    /\ reqs[r].pc = "idle"
    /\ \A q \in Slots : q < r => reqs[q].pc # "idle"
    /\ nreq < MaxReqs

NoResp == [op |-> "none", user |-> NoUser, id |-> 0, arg |-> NoUser, status |-> 0]

\* res.status(status).json(...)
Resp(op, user, id, arg, status) ==
    [op |-> op, user |-> user, id |-> id, arg |-> arg, status |-> status]

Event(name, room, payload) ==
    [name |-> name, room |-> room, payload |-> payload]

\* req.io.emit(...): every connected socket; room 0 stands for "no room"
Global == 0

\* -------------------------------------------------------- projectController
\* members: members ? [...members, req.user.id] : [req.user.id]
NewProjectMembers(body, caller) ==
    IF body.given THEN Append(body.list, caller) ELSE <<caller>>

CreateProject(r, caller, body) ==
    /\ Free(r)
    /\ Cardinality(DOMAIN projects) < MaxProjects
    /\ LET pid == Cardinality(DOMAIN projects) + 1
       IN  /\ projects' = projects @@
                  (pid :> [owner |-> caller,
                           members |-> NewProjectMembers(body, caller),
                           v |-> 0])
           /\ resp' = Resp("createProject", caller, pid, NoUser, 201)
    /\ UNCHANGED reqs
    /\ nreq' = nreq + 1
    /\ events' = <<>>
    /\ result' = NoResult
    /\ UNCHANGED <<taskVars, presVars, listing>>

\* getProjectById without its test of existence
GetProjectCheck_NoExistenceTest(pid, caller) ==
    IF pid \in DOMAIN projects /\ Includes(projects[pid].members, caller)
    THEN 200 ELSE 401

\* the status of getProjectById: 404 before 401
GetProjectCheck(pid, caller) ==
    IF pid \notin DOMAIN projects THEN 404
    ELSE IF ~Includes(projects[pid].members, caller) THEN 401
    ELSE 200

\* GET /api/projects/:id: one await, Project.findById with its populate
GetProjectById(caller, pid) ==
    /\ resp' = Resp("getProjectById", caller, pid, NoUser,
                    GetProjectCheck(pid, caller))
    /\ result' = IF GetProjectCheck(pid, caller) = 200
                 THEN [status |-> 200, id |-> pid, project |-> projects[pid]]
                 ELSE [status |-> GetProjectCheck(pid, caller)]
    /\ events' = <<>>
    /\ UNCHANGED <<httpVars, presVars, listing>>

\* addMember without its "already a member" test
AddMemberCheck_NoMemberTest(project, caller, userId) ==
    IF project.owner # caller THEN 401 ELSE 0

\* the checks of addMember between findById and save; 0 = passed
AddMemberCheck(project, caller, userId) ==
    IF project.owner # caller THEN 401
    ELSE IF Includes(project.members, userId) THEN 400
    ELSE 0

\* removeMember without its "cannot remove the owner" test
RemoveMemberCheck_NoOwnerTest(project, caller, userId) ==
    IF project.owner # caller THEN 401
    ELSE IF ~Includes(project.members, userId) THEN 400
    ELSE 0

\* the checks of removeMember between findById and save; 0 = passed
RemoveMemberCheck(project, caller, userId) ==
    IF project.owner # caller THEN 401
    ELSE IF userId = project.owner THEN 400
    ELSE IF ~Includes(project.members, userId) THEN 400
    ELSE 0

\* first await of addMember / removeMember: Project.findById, then the checks
MemberRead(r, op, caller, pid, userId) ==
    /\ Free(r)
    /\ nreq' = nreq + 1
    /\ result' = NoResult
    /\ UNCHANGED <<projects, taskVars, presVars, listing>>
    /\ events' = <<>>
    /\ IF pid \notin DOMAIN projects
       THEN /\ resp' = Resp(op, caller, pid, userId, 404)
            /\ UNCHANGED reqs
       ELSE LET project == projects[pid]
                code == IF op = "addMember"
                        THEN AddMemberCheck(project, caller, userId)
                        ELSE RemoveMemberCheck(project, caller, userId)
            IN  IF code # 0
                THEN /\ resp' = Resp(op, caller, pid, userId, code)
                     /\ UNCHANGED reqs
                ELSE /\ resp' = NoResp
                     /\ reqs' = [reqs EXCEPT ![r] =
                            [op |-> op, pc |-> "save", user |-> caller,
                             id |-> pid, arg |-> userId, snapV |-> project.v,
                             input |-> NoInput,
                             snapList |-> project.members, doc |-> NoDoc]]

AddMemberRead(r, caller, pid, userId) ==
    MemberRead(r, "addMember", caller, pid, userId)

RemoveMemberRead(r, caller, pid, userId) ==
    MemberRead(r, "removeMember", caller, pid, userId)

\* project.members.push(userId); await project.save()
\* mongoose sends {$push: {members: userId}, $inc: {__v: 1}}: the element is
\* appended to the stored array, whatever it holds by now.
AddMemberSave(r) ==
    /\ reqs[r].op = "addMember" /\ reqs[r].pc = "save"
    /\ LET pid == reqs[r].id
       IN  projects' = [projects EXCEPT
               ![pid].members = Append(@, reqs[r].arg),
               ![pid].v = @ + 1]
    /\ reqs' = [reqs EXCEPT ![r].pc = "refetch"]
    /\ resp' = NoResp
    /\ events' = <<>>
    /\ result' = NoResult
    /\ UNCHANGED <<nreq, taskVars, presVars, listing>>

\* a filter comparing the stored ObjectId with the string by !==: keeps all
RemoveMemberList_StrictCompare(members, userId) == members

\* project.members = project.members.filter(...)
RemoveMemberList(members, userId) == FilterOut(members, userId)

\* await project.save() after the array was replaced: mongoose sends
\* {$set: {members: [...]}, $inc: {__v: 1}} with __v of the document read in
\* the condition; if __v moved the save throws (VersionError) and the catch
\* block answers 500.
RemoveMemberSave(r) ==
    /\ reqs[r].op = "removeMember" /\ reqs[r].pc = "save"
    /\ LET pid == reqs[r].id
       IN  IF projects[pid].v = reqs[r].snapV
           THEN /\ projects' = [projects EXCEPT
                       ![pid].members =
                           RemoveMemberList(reqs[r].snapList, reqs[r].arg),
                       ![pid].v = @ + 1]
                /\ reqs' = [reqs EXCEPT ![r].pc = "refetch"]
                /\ resp' = NoResp
           ELSE /\ reqs' = [reqs EXCEPT ![r] = IdleReq]
                /\ resp' = Resp("removeMember", reqs[r].user, pid,
                                reqs[r].arg, 500)
                /\ UNCHANGED projects
    /\ events' = <<>>
    /\ result' = NoResult
    /\ UNCHANGED <<nreq, taskVars, presVars, listing>>

\* Project.findById(...).populate(...), req.io.emit(...), res.json(members)
MemberRefetch(r) ==
    /\ reqs[r].op \in {"addMember", "removeMember"} /\ reqs[r].pc = "refetch"
    /\ LET pid == reqs[r].id
           name == IF reqs[r].op = "addMember"
                   THEN "member:added" ELSE "member:removed"
       IN  /\ events' = <<Event(name, Global,
                             [userId |-> reqs[r].arg, projectId |-> pid])>>
           /\ resp' = Resp(reqs[r].op, reqs[r].user, pid, reqs[r].arg, 200)
           /\ reqs' = [reqs EXCEPT ![r] = IdleReq]
    /\ result' = NoResult
    /\ UNCHANGED <<projects, nreq, taskVars, presVars, listing>>

\* ------------------------------------------------------------------ socket.js
\* The maps are modelled without the order of their keys and the entries
\* without the display name; neither is read by any handler.

\* map.delete(key)
MapDelete(map, key) == [k \in DOMAIN map \ {key} |-> map[k]]

\* map.set(key, value)
MapSet(map, key, value) ==
    [k \in DOMAIN map \cup {key} |-> IF k = key THEN value ELSE map[k]]

\* Array.from(map.values())
MapValues(map) == {map[k] : k \in DOMAIN map}

\* io.emit('global:presence:update', Array.from(globalOnlineUsers.values()))
GlobalPresenceEvent(global) ==
    Event("global:presence:update", Global, MapValues(global))

\* io.to(`project:${projectId}`).emit('presence:update', users)
PresenceEvent(online, projectId) ==
    Event("presence:update", projectId, MapValues(online[projectId]))

\* if (globalOnlineUsers.has(userId)) globalOnlineUsers.get(userId).currentProject = p
SetGlobalProject(global, userId, p) ==
    IF userId \in DOMAIN global
    THEN [global EXCEPT ![userId].currentProject = p]
    ELSE global

\* process.env.JWT_SECRET
JwtSecret == "secret"

\* socket.handshake.auth.token: undefined, or a token for a user id signed
\* with some key
NoToken == [secret |-> "none", id |-> NoUser]

Tokens ==
    {NoToken} \cup
    {[secret |-> key, id |-> userId] :
        key \in {JwtSecret, "forged"}, userId \in Users}

\* a middleware that only tests that a token is there
AuthCheck_TokenPresent(token) == token # NoToken

\* io.use(...): if (!token) next(Error); jwt.verify(token, JWT_SECRET) throws
\* unless the token is signed with the secret
AuthCheck(token) == token # NoToken /\ token.secret = JwtSecret

\* next(new Error('Authentication error')): socket.io closes the connection
\* and never calls the connection handler
Refuse(s) ==
    /\ sock[s].state = "new"
    /\ \A t \in Sessions : t < s => sock[t].state # "new"
    /\ sock' = [sock EXCEPT ![s].state = "refused"]
    /\ events' = <<>>
    /\ resp' = NoResp
    /\ result' = NoResult
    /\ UNCHANGED <<onlineUsers, globalOnlineUsers, httpVars, listing>>

\* io.use(...) accepted the token of userId, then io.on('connection', ...)
Connect(s, userId) ==
    /\ sock[s].state = "new"
    /\ \A t \in Sessions : t < s => sock[t].state # "new"
    /\ sock' = [sock EXCEPT ![s].state = "open", ![s].userId = userId]
    /\ globalOnlineUsers' = MapSet(globalOnlineUsers, userId,
           [userId |-> userId, socketId |-> s, currentProject |-> NoRoom])
    /\ events' = <<GlobalPresenceEvent(globalOnlineUsers')>>
    /\ resp' = NoResp
    /\ result' = NoResult
    /\ UNCHANGED <<onlineUsers, httpVars, listing>>

\* a connection attempt with a token: the middleware, then the connection
\* handler if it called next() without an error
Handshake(s, token) ==
    IF AuthCheck(token) THEN Connect(s, token.id) ELSE Refuse(s)

\* the sockets that socket.io delivers an emitted event to: io.emit reaches
\* every connected socket, io.to(room).emit the sockets joined to the room
Receivers(sockets, event) ==
    {s \in Sessions :
        /\ sockets[s].state = "open"
        /\ event.room = Global \/ event.room \in sockets[s].rooms}

\* a join that sets a new map for the project each time
JoinOnline_FreshMap(online, s, userId, projectId) ==
    MapSet(online, projectId,
           MapSet(<<>>, userId, [userId |-> userId, socketId |-> s]))

\* onlineUsers after the project:join handler of socket s
JoinOnline(online, s, userId, projectId) ==
    LET withMap == IF projectId \in DOMAIN online
                   THEN online ELSE MapSet(online, projectId, <<>>)
    IN  [withMap EXCEPT ![projectId] =
            MapSet(@, userId, [userId |-> userId, socketId |-> s])]

\* socket.on('project:join', (projectId) => ...)
Join(s, projectId) ==
    /\ sock[s].state = "open"
    /\ sock' = [sock EXCEPT ![s].rooms = @ \cup {projectId},
                            ![s].currentProject = projectId]
    /\ onlineUsers' = JoinOnline(onlineUsers, s, sock[s].userId, projectId)
    /\ globalOnlineUsers' =
           SetGlobalProject(globalOnlineUsers, sock[s].userId, projectId)
    /\ events' = <<PresenceEvent(onlineUsers', projectId),
                   GlobalPresenceEvent(globalOnlineUsers')>>
    /\ resp' = NoResp
    /\ result' = NoResult
    /\ UNCHANGED <<httpVars, listing>>

\* onlineUsers.get(projectId).delete(userId), when the project has a map
DeleteOnline(online, userId, projectId) ==
    IF projectId \in DOMAIN online
    THEN [online EXCEPT ![projectId] = MapDelete(@, userId)]
    ELSE online

\* a handler that deletes from the map and tells nobody
DeleteEvents_Silent(online, projectId) == <<>>

\* the presence:update of a handler that deleted from the map of projectId
DeleteEvents(online, projectId) ==
    IF projectId \in DOMAIN online
    THEN <<PresenceEvent(online, projectId)>> ELSE <<>>

\* the rooms of socket s and the two maps after its project:leave handler
LeaveRegistry(s, projectId) ==
    [rooms |-> sock[s].rooms \ {projectId},
     online |-> DeleteOnline(onlineUsers, sock[s].userId, projectId),
     global |-> SetGlobalProject(globalOnlineUsers, sock[s].userId, NoRoom)]

\* socket.on('project:leave', (projectId) => ...)
Leave(s, projectId) ==
    /\ sock[s].state = "open"
    /\ sock' = [sock EXCEPT ![s].rooms = LeaveRegistry(s, projectId).rooms]
    /\ onlineUsers' = LeaveRegistry(s, projectId).online
    /\ globalOnlineUsers' = LeaveRegistry(s, projectId).global
    /\ events' = DeleteEvents(onlineUsers', projectId) \o
                 <<GlobalPresenceEvent(globalOnlineUsers')>>
    /\ resp' = NoResp
    /\ result' = NoResult
    /\ UNCHANGED <<httpVars, listing>>

\* the project whose map the disconnect handler cleans: socket.currentProject
DisconnectProject(socket) == socket.currentProject

\* socket.on('disconnect', () => ...); socket.io has emptied socket.rooms
Disconnect(s) ==
    /\ sock[s].state = "open"
    /\ sock' = [sock EXCEPT ![s].state = "closed", ![s].rooms = {}]
    /\ LET p == DisconnectProject(sock[s])
       IN  IF p # NoRoom /\ p \in DOMAIN onlineUsers
           THEN /\ onlineUsers' = DeleteOnline(onlineUsers, sock[s].userId, p)
                /\ globalOnlineUsers' =
                       MapDelete(globalOnlineUsers, sock[s].userId)
                /\ events' = <<PresenceEvent(onlineUsers', p),
                               GlobalPresenceEvent(globalOnlineUsers')>>
           ELSE /\ UNCHANGED onlineUsers
                /\ globalOnlineUsers' =
                       MapDelete(globalOnlineUsers, sock[s].userId)
                /\ events' = <<GlobalPresenceEvent(globalOnlineUsers')>>
    /\ resp' = NoResp
    /\ result' = NoResult
    /\ UNCHANGED <<httpVars, listing>>

\* the rooms of socket s and the two maps after its member:kicked handler
KickedRegistry(s, projectId) ==
    [rooms |-> sock[s].rooms \ {projectId},
     online |-> DeleteOnline(onlineUsers, sock[s].userId, projectId),
     global |-> IF sock[s].currentProject = projectId
                THEN SetGlobalProject(globalOnlineUsers, sock[s].userId,
                                      NoRoom)
                ELSE globalOnlineUsers]

\* socket.on('member:kicked', ({ projectId }) => ...)
Kicked(s, projectId) ==
    /\ sock[s].state = "open"
    /\ sock' = [sock EXCEPT
           ![s].rooms = KickedRegistry(s, projectId).rooms,
           ![s].currentProject = IF @ = projectId THEN NoRoom ELSE @]
    /\ onlineUsers' = KickedRegistry(s, projectId).online
    /\ globalOnlineUsers' = KickedRegistry(s, projectId).global
    /\ events' = DeleteEvents(onlineUsers', projectId) \o
                 <<GlobalPresenceEvent(globalOnlineUsers')>>
    /\ resp' = NoResp
    /\ result' = NoResult
    /\ UNCHANGED <<httpVars, listing>>

\* ----------------------------------------------------------- taskController
\* req.body of createTask, after validation
TaskBody(title, description, status, priority, project, assignees, dueDate) ==
    [title |-> title, description |-> description, status |-> status,
     priority |-> priority, project |-> project, assignees |-> assignees,
     dueDate |-> dueDate]

\* a default that replaces the value given
OrDefault_AlwaysFallback(value, fallback) == fallback

\* value || fallback, for an optional string field
OrDefault(value, fallback) == IF value = Absent THEN fallback ELSE value

\* new Task({...}) of createTask; createdAt: { default: Date.now }
NewTask(body, time) ==
    [project |-> body.project,
     title |-> body.title,
     status |-> OrDefault(body.status, "todo"),
     priority |-> OrDefault(body.priority, "medium"),
     description |-> body.description,
     dueDate |-> body.dueDate,
     comments |-> <<>>,
     createdAt |-> time,
     assignees |-> IF body.assignees.given THEN body.assignees.list ELSE <<>>,
     v |-> 0]

\* first await of createTask: Project.findById, the checks, then new Task(),
\* which generates the _id and takes Date.now()
\* cap bounds the task ids that are generated
CreateTaskReadUpTo(r, caller, body, tick, cap) ==
    /\ Free(r)
    /\ nreq' = nreq + 1
    /\ events' = <<>>
    /\ result' = NoResult
    /\ UNCHANGED <<projects, tasks, presVars, listing>>
    /\ IF body.project \notin DOMAIN projects
       THEN /\ resp' = Resp("createTask", caller, body.project, NoUser, 404)
            /\ UNCHANGED <<reqs, ntasks, now>>
       ELSE IF ~Includes(projects[body.project].members, caller)
       THEN /\ resp' = Resp("createTask", caller, body.project, NoUser, 401)
            /\ UNCHANGED <<reqs, ntasks, now>>
       ELSE /\ ntasks < cap
            /\ ntasks' = ntasks + 1
            /\ now' = now + tick
            /\ resp' = NoResp
            /\ reqs' = [reqs EXCEPT ![r] =
                   [op |-> "createTask", pc |-> "save", user |-> caller,
                    id |-> ntasks', arg |-> NoUser, snapV |-> 0,
                    input |-> NoInput,
                    snapList |-> <<>>, doc |-> NewTask(body, now')]]

\* createTask while fewer than MaxTasks task ids have been generated
CreateTaskRead(r, caller, body, tick) ==
    CreateTaskReadUpTo(r, caller, body, tick, MaxTasks)

\* await task.save() of createTask: the insert
CreateTaskSave(r) ==
    /\ reqs[r].op = "createTask" /\ reqs[r].pc = "save"
    /\ tasks' = MapSet(tasks, reqs[r].id, reqs[r].doc)
    /\ reqs' = [reqs EXCEPT ![r].pc = "refetch"]
    /\ resp' = NoResp
    /\ events' = <<>>
    /\ result' = NoResult
    /\ UNCHANGED <<projects, ntasks, now, nreq, presVars, listing>>

\* assignUser without its "already assigned" test
AssignCheck_NoAssignedTest(task, userId) == 0

\* the check of assignUser between findById and save; 0 = passed
AssignCheck(task, userId) ==
    IF Includes(task.assignees, userId) THEN 400 ELSE 0

\* an assignUser that saves the push before it tests the list
AssignUserRead_SaveFirst(r, tid, userId) ==
    /\ Free(r)
    /\ tid \in DOMAIN tasks
    /\ nreq' = nreq + 1
    /\ tasks' = [tasks EXCEPT ![tid].assignees = Append(@, userId)]
    /\ resp' = Resp("assignUser", NoUser, tid, userId,
                    IF Includes(tasks[tid].assignees, userId) THEN 400
                    ELSE 200)
    /\ events' = <<>>
    /\ result' = NoResult
    /\ UNCHANGED <<projects, ntasks, now, reqs, presVars, listing>>

\* first await of assignUser: Task.findById, then the check; the handler
\* never reads req.user
AssignUserRead(r, tid, userId) ==
    /\ Free(r)
    /\ nreq' = nreq + 1
    /\ events' = <<>>
    /\ result' = NoResult
    /\ UNCHANGED <<projects, taskVars, presVars, listing>>
    /\ IF tid \notin DOMAIN tasks
       THEN /\ resp' = Resp("assignUser", NoUser, tid, userId, 404)
            /\ UNCHANGED reqs
       ELSE IF AssignCheck(tasks[tid], userId) # 0
       THEN /\ resp' = Resp("assignUser", NoUser, tid, userId,
                            AssignCheck(tasks[tid], userId))
            /\ UNCHANGED reqs
       ELSE /\ resp' = NoResp
            /\ reqs' = [reqs EXCEPT ![r] =
                   [op |-> "assignUser", pc |-> "save", user |-> NoUser,
                    id |-> tid, arg |-> userId, snapV |-> 0,
                    input |-> NoInput,
                    snapList |-> <<>>, doc |-> tasks[tid]]]

\* first await of unassignUser: Task.findById; there is no check and the
\* handler never reads req.user
UnassignUserRead(r, tid, userId) ==
    /\ Free(r)
    /\ nreq' = nreq + 1
    /\ events' = <<>>
    /\ result' = NoResult
    /\ UNCHANGED <<projects, taskVars, presVars, listing>>
    /\ IF tid \notin DOMAIN tasks
       THEN /\ resp' = Resp("unassignUser", NoUser, tid, userId, 404)
            /\ UNCHANGED reqs
       ELSE /\ resp' = NoResp
            /\ reqs' = [reqs EXCEPT ![r] =
                   [op |-> "unassignUser", pc |-> "save", user |-> NoUser,
                    id |-> tid, arg |-> userId, snapV |-> 0,
                    input |-> NoInput,
                    snapList |-> <<>>, doc |-> tasks[tid]]]

\* a save that finds no document, or not the __v it asks for, throws and the
\* catch block answers 500
SaveFails(r) ==
    /\ reqs' = [reqs EXCEPT ![r] = IdleReq]
    /\ resp' = Resp(reqs[r].op, reqs[r].user, reqs[r].id, reqs[r].arg, 500)
    /\ UNCHANGED tasks

\* task.assignees.push(userId); await task.save()
\* mongoose sends {$push: {assignees: userId}, $inc: {__v: 1}}
AssignUserSave(r) ==
    /\ reqs[r].op = "assignUser" /\ reqs[r].pc = "save"
    /\ LET tid == reqs[r].id
       IN  IF tid \in DOMAIN tasks
           THEN /\ tasks' = [tasks EXCEPT
                       ![tid].assignees = Append(@, reqs[r].arg),
                       ![tid].v = @ + 1]
                /\ reqs' = [reqs EXCEPT ![r].pc = "refetch"]
                /\ resp' = NoResp
           ELSE SaveFails(r)
    /\ events' = <<>>
    /\ result' = NoResult
    /\ UNCHANGED <<projects, ntasks, now, nreq, presVars, listing>>

\* a filter keeping the entries equal to the user instead of the others
UnassignList_Inverted(assignees, userId) ==
    SelectSeq(assignees, LAMBDA a : a = userId)

\* task.assignees.filter(assignee => assignee.toString() !== req.params.userId)
UnassignList(assignees, userId) == FilterOut(assignees, userId)

\* task.assignees = ...filter(...); await task.save()
\* An array equal to the one read is not a modification: mongoose sends no
\* update and only looks the document up.  A different array is sent as
\* {$set: {assignees: [...]}, $inc: {__v: 1}} with __v of the document read
\* in the condition.
UnassignUserSave(r) ==
    /\ reqs[r].op = "unassignUser" /\ reqs[r].pc = "save"
    /\ LET tid == reqs[r].id
           list == UnassignList(reqs[r].doc.assignees, reqs[r].arg)
       IN  IF tid \notin DOMAIN tasks
           THEN SaveFails(r)
           ELSE IF list = reqs[r].doc.assignees
           THEN /\ UNCHANGED tasks
                /\ reqs' = [reqs EXCEPT ![r].pc = "refetch"]
                /\ resp' = NoResp
           ELSE IF tasks[tid].v = reqs[r].doc.v
           THEN /\ tasks' = [tasks EXCEPT ![tid].assignees = list,
                                          ![tid].v = @ + 1]
                /\ reqs' = [reqs EXCEPT ![r].pc = "refetch"]
                /\ resp' = NoResp
           ELSE SaveFails(r)
    /\ events' = <<>>
    /\ result' = NoResult
    /\ UNCHANGED <<projects, ntasks, now, nreq, presVars, listing>>

\* getTaskById: Task.findById(...).populate(...), the 404, res.json(task)
GetTaskById(tid) ==
    /\ nreq < MaxReqs
    /\ nreq' = nreq + 1
    /\ resp' = Resp("getTaskById", NoUser, tid, NoUser,
                    IF tid \in DOMAIN tasks THEN 200 ELSE 404)
    /\ result' = IF tid \in DOMAIN tasks
                 THEN [status |-> 200, id |-> tid, task |-> tasks[tid]]
                 ELSE [status |-> 404]
    /\ events' = <<>>
    /\ UNCHANGED <<projects, taskVars, reqs, presVars, listing>>

\* a dueDate the body of updateTask does not carry (undefined)
DateAbsent == -1

\* req.body of updateTask after validation; Absent and DateAbsent are a field
\* that the body does not carry, NoDate a dueDate of null
UpdateBody(title, description, status, priority, dueDate) ==
    [title |-> title, description |-> description, status |-> status,
     priority |-> priority, dueDate |-> dueDate]

\* first await of updateTask: Task.findById and the 404
UpdateTaskRead(r, tid, body) ==
    /\ Free(r)
    /\ nreq' = nreq + 1
    /\ events' = <<>>
    /\ result' = NoResult
    /\ UNCHANGED <<projects, taskVars, presVars, listing>>
    /\ IF tid \notin DOMAIN tasks
       THEN /\ resp' = Resp("updateTask", NoUser, tid, NoUser, 404)
            /\ UNCHANGED reqs
       ELSE /\ resp' = NoResp
            /\ reqs' = [reqs EXCEPT ![r] =
                   [op |-> "updateTask", pc |-> "save", user |-> NoUser,
                    id |-> tid, arg |-> NoUser, snapV |-> 0,
                    input |-> body, snapList |-> <<>>, doc |-> tasks[tid]]]

\* an update that writes every field of the body, also the fields it leaves out
UpdateFields_WholeBody(task, body) ==
    [task EXCEPT !.title = body.title,
                 !.description = body.description,
                 !.status = body.status,
                 !.priority = body.priority,
                 !.dueDate = IF body.dueDate = DateAbsent THEN NoDate
                             ELSE body.dueDate]

\* if (title) task.title = title; if (description !== undefined) ...; the
\* document read with the fields of the body set
UpdateFields(task, body) ==
    [task EXCEPT !.title = IF body.title # Absent THEN body.title ELSE @,
                 !.description = IF body.description # Absent
                                 THEN body.description ELSE @,
                 !.status = IF body.status # Absent THEN body.status ELSE @,
                 !.priority = IF body.priority # Absent THEN body.priority
                              ELSE @,
                 !.dueDate = IF body.dueDate # DateAbsent THEN body.dueDate
                             ELSE @]

\* await task.save() of updateTask: mongoose sends a $set of the paths whose
\* value differs from the value read, and only looks the document up when
\* there is none
UpdateTaskSave(r) ==
    /\ reqs[r].op = "updateTask" /\ reqs[r].pc = "save"
    /\ events' = <<>>
    /\ result' = NoResult
    /\ IF reqs[r].id \notin DOMAIN tasks
       THEN SaveFails(r)
       ELSE LET read == reqs[r].doc
                set == UpdateFields(read, reqs[r].input)
                stored == tasks[reqs[r].id]
                Written(field) ==
                    IF set[field] # read[field] THEN set[field]
                                                ELSE stored[field]
            IN  /\ tasks' = [tasks EXCEPT ![reqs[r].id] =
                       [stored EXCEPT !.title = Written("title"),
                                      !.description = Written("description"),
                                      !.status = Written("status"),
                                      !.priority = Written("priority"),
                                      !.dueDate = Written("dueDate")]]
                /\ reqs' = [reqs EXCEPT ![r].pc = "refetch"]
                /\ resp' = NoResp
    /\ UNCHANGED <<projects, ntasks, now, nreq, presVars, listing>>

\* deleteTask: first await, Task.findById and the 404
DeleteTaskRead(r, tid) ==
    /\ Free(r)
    /\ nreq' = nreq + 1
    /\ events' = <<>>
    /\ result' = NoResult
    /\ UNCHANGED <<projects, taskVars, presVars, listing>>
    /\ IF tid \notin DOMAIN tasks
       THEN /\ resp' = Resp("deleteTask", NoUser, tid, NoUser, 404)
            /\ UNCHANGED reqs
       ELSE /\ resp' = NoResp
            /\ reqs' = [reqs EXCEPT ![r] =
                   [op |-> "deleteTask", pc |-> "delete", user |-> NoUser,
                    id |-> tid, arg |-> NoUser, snapV |-> 0,
                    input |-> NoInput, snapList |-> <<>>,
                    doc |-> tasks[tid]]]

\* the payload of task:deleted
DeletedPayload(tid, projectId) == [taskId |-> tid]

\* second await of deleteTask: Task.findByIdAndDelete, which deletes nothing
\* when the task is gone, then the emits and the answer
DeleteTaskDelete(r) ==
    /\ reqs[r].op = "deleteTask" /\ reqs[r].pc = "delete"
    /\ tasks' = MapDelete(tasks, reqs[r].id)
    /\ events' = <<Event("task:deleted", reqs[r].doc.project,
                         DeletedPayload(reqs[r].id, reqs[r].doc.project)),
                   Event("task:stats:changed", Global,
                         [projectId |-> reqs[r].doc.project])>>
    /\ resp' = Resp("deleteTask", NoUser, reqs[r].id, NoUser, 200)
    /\ result' = NoResult
    /\ reqs' = [reqs EXCEPT ![r] = IdleReq]
    /\ UNCHANGED <<projects, ntasks, now, nreq, presVars, listing>>

\* a comment as addComment pushes it; createdAt: { default: Date.now }
CommentOf(user, text, time) ==
    [user |-> user, text |-> text, createdAt |-> time]

\* first await of addComment: Task.findById, the 404, then comments.push
AddCommentRead(r, caller, tid, text) ==
    /\ Free(r)
    /\ nreq' = nreq + 1
    /\ events' = <<>>
    /\ result' = NoResult
    /\ UNCHANGED <<projects, taskVars, presVars, listing>>
    /\ IF tid \notin DOMAIN tasks
       THEN /\ resp' = Resp("addComment", caller, tid, NoUser, 404)
            /\ UNCHANGED reqs
       ELSE /\ resp' = NoResp
            /\ reqs' = [reqs EXCEPT ![r] =
                   [op |-> "addComment", pc |-> "save", user |-> caller,
                    id |-> tid, arg |-> NoUser, snapV |-> 0,
                    input |-> CommentOf(caller, text, now),
                    snapList |-> <<>>, doc |-> tasks[tid]]]

\* a comment that is put in front of the stored ones
PushComment_Unshift(comments, comment) == <<comment>> \o comments

\* $push: the comment goes after the comments that are stored
PushComment(comments, comment) == Append(comments, comment)

\* a save that inserts the document it holds when the stored one is gone
AddCommentSave_Upsert(r) ==
    /\ reqs[r].op = "addComment" /\ reqs[r].pc = "save"
    /\ events' = <<>>
    /\ result' = NoResult
    /\ tasks' = MapSet(tasks, reqs[r].id,
                       [reqs[r].doc EXCEPT
                           !.comments = PushComment(@, reqs[r].input)])
    /\ reqs' = [reqs EXCEPT ![r].pc = "refetch"]
    /\ resp' = NoResp
    /\ UNCHANGED <<projects, ntasks, now, nreq, presVars, listing>>

\* await task.save() of addComment
\* mongoose sends {$push: {comments: comment}, $inc: {__v: 1}}
AddCommentSave(r) ==
    /\ reqs[r].op = "addComment" /\ reqs[r].pc = "save"
    /\ events' = <<>>
    /\ result' = NoResult
    /\ IF reqs[r].id \notin DOMAIN tasks
       THEN SaveFails(r)
       ELSE /\ tasks' = [tasks EXCEPT ![reqs[r].id] =
                   [@ EXCEPT !.comments = PushComment(@, reqs[r].input),
                             !.v = @ + 1]]
            /\ reqs' = [reqs EXCEPT ![r].pc = "refetch"]
            /\ resp' = NoResp
    /\ UNCHANGED <<projects, ntasks, now, nreq, presVars, listing>>

\* comment: populatedTask.comments[populatedTask.comments.length - 1], the
\* last comment of the task re-fetched
CommentEvent(comment, populatedComments) ==
    populatedComments[Len(populatedComments)]

\* Task.findById(task._id).populate(...) of addComment, the emit and the
\* answer; reading comments of a task that is gone throws, and the catch
\* block answers 500
AddCommentRefetch(r) ==
    /\ reqs[r].op = "addComment" /\ reqs[r].pc = "refetch"
    /\ IF reqs[r].id \notin DOMAIN tasks
       THEN /\ events' = <<>>
            /\ resp' = Resp("addComment", reqs[r].user, reqs[r].id, NoUser,
                            500)
       ELSE /\ events' =
                <<Event("task:comment", reqs[r].doc.project,
                        [taskId |-> reqs[r].id,
                         comment |-> CommentEvent(reqs[r].input,
                                         tasks[reqs[r].id].comments)])>>
            /\ resp' = Resp("addComment", reqs[r].user, reqs[r].id, NoUser,
                            200)
    /\ result' = NoResult
    /\ reqs' = [reqs EXCEPT ![r] = IdleReq]
    /\ UNCHANGED <<projects, taskVars, nreq, presVars, listing>>

\* task events sent to every connected socket
TaskEvents_Global(op, project, populatedTask) ==
    IF op = "createTask"
    THEN <<Event("task:created", Global, populatedTask),
           Event("task:stats:changed", Global, [projectId |-> project])>>
    ELSE <<Event("task:updated", Global, populatedTask),
           Event("task:stats:changed", Global, [projectId |-> project])>>

\* handlers that all tell the dashboards after their task event
TaskEvents_StatsAlways(op, project, populatedTask) ==
    <<Event(IF op = "createTask" THEN "task:created" ELSE "task:updated",
            project, populatedTask),
      Event("task:stats:changed", Global, [projectId |-> project])>>

\* the events of a task handler after its re-fetch; project is the project
\* of the document the handler holds, populatedTask the document re-fetched
TaskEvents(op, project, populatedTask) ==
    IF op = "createTask"
    THEN <<Event("task:created", project, populatedTask),
           Event("task:stats:changed", Global, [projectId |-> project])>>
    ELSE IF op = "updateTask"
    THEN <<Event("task:updated", project, populatedTask),
           Event("task:stats:changed", Global, [projectId |-> project])>>
    ELSE <<Event("task:updated", project, populatedTask)>>

\* Task.findById(task._id).populate(...), the emits, res.json(populatedTask)
TaskRefetch(r) ==
    /\ reqs[r].op \in {"createTask", "updateTask", "assignUser",
                     "unassignUser"}
    /\ reqs[r].pc = "refetch"
    /\ LET tid == reqs[r].id
           populatedTask == IF tid \in DOMAIN tasks
                            THEN [id |-> tid, task |-> tasks[tid]]
                            ELSE [id |-> 0, task |-> NoDoc]
       IN  /\ events' = TaskEvents(reqs[r].op, reqs[r].doc.project,
                                   populatedTask)
           /\ resp' = Resp(reqs[r].op, reqs[r].user, tid, reqs[r].arg,
                           IF reqs[r].op = "createTask" THEN 201 ELSE 200)
    /\ reqs' = [reqs EXCEPT ![r] = IdleReq]
    /\ result' = NoResult
    /\ UNCHANGED <<projects, taskVars, nreq, presVars, listing>>


\* ------------------------------------------------- middleware/validation.js

\* a Joi object schema: the values each key may have, the keys that are
\* required, and the least number of keys (object.min)
Schema(allowed, required, min) ==
    [allowed |-> allowed, required |-> required, min |-> min]

\* objectId: a string of 24 hex digits; the ids of the model are the naturals
ObjectIds == Nat \ {0}

\* Joi.string(): any string but the empty one, which needs allow('')
Strings == {"a", "b"}

\* idParamSchema
IdParamSchema == Schema([id |-> ObjectIds], {"id"}, 0)

\* updateTaskSchema, without dueDate
UpdateTaskSchema ==
    Schema([title |-> Strings, description |-> Strings \cup {""},
            status |-> Statuses, priority |-> Priorities], {}, 1)

\* addCommentSchema, without reference
AddCommentSchema == Schema([text |-> Strings], {"text"}, 0)

\* the value of schema.validate(raw, {stripUnknown: true}): the keys that the
\* schema knows
Sanitized(schema, raw) ==
    [f \in DOMAIN raw \cap DOMAIN schema.allowed |-> raw[f]]

\* a validation that tests the required keys only
SchemaErrors_RequiredOnly(schema, raw) == schema.required \ DOMAIN raw

\* error.details with abortEarly: false, as the set of the fields at fault;
\* "" is the path of an error on the object itself
SchemaErrors(schema, raw) ==
    {f \in DOMAIN raw \cap DOMAIN schema.allowed :
        raw[f] \notin schema.allowed[f]}
    \cup (schema.required \ DOMAIN raw)
    \cup (IF Cardinality(DOMAIN Sanitized(schema, raw)) < schema.min
          THEN {""} ELSE {})

\* schema.validate(req[property], { abortEarly: false, stripUnknown: true })
SchemaValidate(schema, raw) ==
    [error |-> SchemaErrors(schema, raw), value |-> Sanitized(schema, raw)]

\* return res.status(400).json({ message: 'Validation failed', errors })
ValidationFailed(op, errors) ==
    /\ nreq < MaxReqs
    /\ nreq' = nreq + 1
    /\ resp' = Resp(op, NoUser, 0, NoUser, 400)
    /\ result' = [status |-> 400, errors |-> errors]
    /\ events' = <<>>
    /\ UNCHANGED <<projects, taskVars, reqs, presVars, listing>>

\* const { title, ... } = req.body: a key that the body lacks is undefined
Field(body, key, undefined) ==
    IF key \in DOMAIN body THEN body[key] ELSE undefined

\* router.put('/:id', validateParams(idParamSchema),
\*            validateBody(updateTaskSchema), updateTask): each middleware
\* answers 400 or sets req[property] and calls next()
PutTask(r, params, body) ==
    LET p == SchemaValidate(IdParamSchema, params)
        b == SchemaValidate(UpdateTaskSchema, body)
    IN  IF p.error # {} THEN ValidationFailed("updateTask", p.error)
        ELSE IF b.error # {} THEN ValidationFailed("updateTask", b.error)
        ELSE UpdateTaskRead(r, p.value.id,
                 UpdateBody(Field(b.value, "title", Absent),
                            Field(b.value, "description", Absent),
                            Field(b.value, "status", Absent),
                            Field(b.value, "priority", Absent),
                            DateAbsent))

\* router.post('/:id/comments', validateParams(idParamSchema),
\*             validateBody(addCommentSchema), addComment)
PostComment(r, caller, params, body) ==
    LET p == SchemaValidate(IdParamSchema, params)
        b == SchemaValidate(AddCommentSchema, body)
    IN  IF p.error # {} THEN ValidationFailed("addComment", p.error)
        ELSE IF b.error # {} THEN ValidationFailed("addComment", b.error)
        ELSE AddCommentRead(r, caller, p.value.id, b.value.text)

\* ------------------------------------------------ taskController.getAllTasks
\* req.query of GET /api/tasks after validation; Absent is a parameter that
\* is not given, and projectId 0 is no projectId
Query(user, limit, status, priority, assignee, projectId, sortBy, sortOrder) ==
    [user |-> user, limit |-> limit, status |-> status, priority |-> priority,
     assignee |-> assignee, projectId |-> projectId, sortBy |-> sortBy,
     sortOrder |-> sortOrder]

NoCursor == 0

\* const order = sortOrder === 'asc' ? 1 : -1
Order(q) == IF q.sortOrder = "asc" THEN 1 ELSE -1

\* validSortFields.includes(sortBy) ? sortBy : 'createdAt'
SortField(q) ==
    IF q.sortBy \in {"createdAt", "dueDate", "priority", "title"}
    THEN q.sortBy ELSE "createdAt"

\* the place of a string among the strings of the model, in the binary
\* order in which the store compares strings
StringRank(str) ==
    CASE str = "a" -> 1
      [] str = "b" -> 2
      [] str = "high" -> 3
      [] str = "low" -> 4
      [] str = "medium" -> 5

\* the value the store sorts a task by; a missing dueDate sorts before
\* every date
SortKey(task, field) ==
    CASE field = "createdAt" -> task.createdAt
      [] field = "dueDate" -> task.dueDate
      [] field = "priority" -> StringRank(task.priority)
      [] field = "title" -> StringRank(task.title)

\* .sort({ [sortField]: order, _id: order }): task a comes before task b
Before(a, b, field, order) ==
    LET ka == SortKey(tasks[a], field)
        kb == SortKey(tasks[b], field)
    IN  IF order = 1
        THEN ka < kb \/ (ka = kb /\ a < b)
        ELSE ka > kb \/ (ka = kb /\ a > b)

\* the ids of a set of tasks in the order of the sort
SortIds(ids, field, order) ==
    [i \in 1..Cardinality(ids) |->
        CHOOSE t \in ids :
            Cardinality({u \in ids : Before(u, t, field, order)}) = i - 1]

\* Project.find({ members: req.user.id }).select('_id')
ProjectsOf(user) ==
    {p \in DOMAIN projects : Includes(projects[p].members, user)}

\* filters of which one has to hold
Matches_AnyFilter(tid, q) ==
    /\ IF q.projectId # 0 THEN tasks[tid].project = q.projectId
                          ELSE tasks[tid].project \in ProjectsOf(q.user)
    /\ \/ q.status = Absent /\ q.priority = Absent /\ q.assignee = Absent
       \/ q.status # Absent /\ tasks[tid].status = q.status
       \/ q.priority # Absent /\ tasks[tid].priority = q.priority
       \/ q.assignee # Absent /\ Includes(tasks[tid].assignees, q.assignee)

\* the filters of the query, without the cursor (the countDocuments filter)
Matches(tid, q) ==
    /\ IF q.projectId # 0 THEN tasks[tid].project = q.projectId
                          ELSE tasks[tid].project \in ProjectsOf(q.user)
    /\ q.status # Absent => tasks[tid].status = q.status
    /\ q.priority # Absent => tasks[tid].priority = q.priority
    /\ q.assignee # Absent => Includes(tasks[tid].assignees, q.assignee)

\* a boundary that is found by looking up the task of the cursor
AfterCursor_NeedsCursorTask(tid, cursor, order) ==
    cursor # NoCursor =>
        /\ cursor \in DOMAIN tasks
        /\ IF order = -1 THEN tid < cursor ELSE tid > cursor

\* a boundary that takes the task of the cursor again
AfterCursor_Inclusive(tid, cursor, order) ==
    cursor # NoCursor => IF order = -1 THEN tid <= cursor ELSE tid >= cursor

\* query._id = { $lt: cursor } when order is -1, { $gt: cursor } otherwise
AfterCursor(tid, cursor, order) ==
    cursor # NoCursor => IF order = -1 THEN tid < cursor ELSE tid > cursor

\* .limit(n)
Limit(seq, n) == SubSeq(seq, 1, IF Len(seq) < n THEN Len(seq) ELSE n)

\* the body of the 200 response of getAllTasks
GetAllTasksBody(q, cursor) ==
    LET found == Limit(SortIds({t \in DOMAIN tasks :
                                   /\ Matches(t, q)
                                   /\ AfterCursor(t, cursor, Order(q))},
                               SortField(q), Order(q)),
                       q.limit + 1)
        hasMore == Len(found) > q.limit
        resultTasks == IF hasMore THEN SubSeq(found, 1, Len(found) - 1)
                                  ELSE found
    IN  IF ProjectsOf(q.user) = {}
        THEN [tasks |-> <<>>, nextCursor |-> NoCursor, hasMore |-> FALSE,
              total |-> 0]
        ELSE [tasks |-> resultTasks,
              nextCursor |-> IF hasMore /\ Len(resultTasks) > 0
                             THEN resultTasks[Len(resultTasks)]
                             ELSE NoCursor,
              hasMore |-> hasMore,
              total |-> Cardinality({t \in DOMAIN tasks : Matches(t, q)})]

\* the status of the response of getAllTasks
GetAllTasksStatus(q) ==
    IF ProjectsOf(q.user) # {} /\ q.projectId # 0
                               /\ q.projectId \notin ProjectsOf(q.user)
    THEN 401 ELSE 200

\* GET /api/tasks with query q and cursor; the client appends the page to
\* what it has and keeps nextCursor. The handler writes nothing, so its
\* three reads are one step.
GetAllTasks(q, cursor) ==
    LET body == GetAllTasksBody(q, cursor)
    IN  /\ resp' = Resp("getAllTasks", q.user, q.projectId, NoUser,
                        GetAllTasksStatus(q))
        /\ events' = <<>>
        /\ listing' =
             IF GetAllTasksStatus(q) # 200
             THEN [q |-> q, cursor |-> NoCursor, got |-> <<>>,
                   total |-> 0, state |-> "refused"]
             ELSE [q |-> q, cursor |-> body.nextCursor,
                   got |-> (IF cursor = NoCursor THEN <<>> ELSE listing.got)
                               \o body.tasks,
                   total |-> body.total,
                   state |-> IF body.hasMore THEN "more" ELSE "done"]
        /\ result' = NoResult
        /\ UNCHANGED <<httpVars, presVars>>

\* the client has no query yet
NoListing ==
    [q |-> Query(NoUser, 1, Absent, Absent, Absent, 0, Absent, Absent),
     cursor |-> NoCursor, got |-> <<>>, total |-> 0, state |-> "idle"]

\* the first call of a listing, without a cursor
FirstPage(q) ==
    /\ listing.state = "idle"
    /\ GetAllTasks(q, NoCursor)

\* the next call of the listing, with the nextCursor of the last page
NextPage ==
    /\ listing.state = "more"
    /\ GetAllTasks(listing.q, listing.cursor)

\* ------------------------------------------ taskController.getTasksByProject
\* first await of getTasksByProject: Project.findById, then the checks
GetTasksByProjectRead(r, caller, pid, query) ==
    /\ Free(r)
    /\ nreq' = nreq + 1
    /\ events' = <<>>
    /\ result' = NoResult
    /\ UNCHANGED <<projects, taskVars, presVars, listing>>
    /\ IF pid \notin DOMAIN projects
       THEN /\ resp' = Resp("getTasksByProject", caller, pid, NoUser, 404)
            /\ UNCHANGED reqs
       ELSE IF ~Includes(projects[pid].members, caller)
       THEN /\ resp' = Resp("getTasksByProject", caller, pid, NoUser, 401)
            /\ UNCHANGED reqs
       ELSE /\ resp' = NoResp
            /\ reqs' = [reqs EXCEPT ![r] =
                   [op |-> "getTasksByProject", pc |-> "find",
                    user |-> caller, id |-> pid, arg |-> NoUser,
                    snapV |-> 0, input |-> query, snapList |-> <<>>,
                    doc |-> NoDoc]]

\* the tasks that the query of getTasksByProject selects
ProjectTasks(pid, query) ==
    {t \in DOMAIN tasks :
        /\ tasks[t].project = pid
        /\ query.status # Absent => tasks[t].status = query.status
        /\ query.assignee # Absent =>
               Includes(tasks[t].assignees, query.assignee)
        /\ query.cursor # 0 => t < query.cursor}

\* .sort({ createdAt: -1 }): the orders the sort can leave; tasks of one
\* createdAt come in any order
ByCreatedAtDesc(ids) ==
    {o \in [1..Cardinality(ids) -> ids] :
        /\ \A i \in DOMAIN o : \A j \in DOMAIN o : i # j => o[i] # o[j]
        /\ \A i \in DOMAIN o : \A j \in DOMAIN o :
              i < j => tasks[o[i]].createdAt >= tasks[o[j]].createdAt}

\* second await of getTasksByProject: Task.find, then the page
GetTasksByProjectFind(r) ==
    /\ reqs[r].op = "getTasksByProject" /\ reqs[r].pc = "find"
    /\ LET query == reqs[r].input
           limit == IF query.limit = 0 THEN 50 ELSE query.limit
       IN  \E o \in ByCreatedAtDesc(ProjectTasks(reqs[r].id, query)) :
              LET found == Limit(o, limit + 1)
                  hasMore == Len(found) > limit
                  resultTasks == IF hasMore
                                 THEN SubSeq(found, 1, Len(found) - 1)
                                 ELSE found
              IN  result' = [status |-> 200,
                             tasks |-> resultTasks,
                             hasMore |-> hasMore,
                             nextCursor |->
                                 IF hasMore
                                 THEN resultTasks[Len(resultTasks)]
                                 ELSE NoCursor]
    /\ resp' = Resp("getTasksByProject", reqs[r].user, reqs[r].id, NoUser,
                    200)
    /\ reqs' = [reqs EXCEPT ![r] = IdleReq]
    /\ events' = <<>>
    /\ UNCHANGED <<projects, taskVars, nreq, presVars, listing>>

\* ------------------------------------------- taskController.searchTasksText
\* the characters of the strings that titles, descriptions, comments and
\* search terms are made of
Chars(str) ==
    CASE str = "a" -> <<"a">>
      [] str = "b" -> <<"b">>
      [] str = "B" -> <<"B">>
      [] str = "Ab" -> <<"A", "b">>
      [] str = " B" -> <<" ", "B">>
      [] str = " " -> <<" ">>
      [] str = "" -> <<>>

\* the lower case of a character (the 'i' flag of the RegExp)
Lower(c) ==
    CASE c = "A" -> "a"
      [] c = "B" -> "b"
      [] OTHER -> c

\* q.trim(), on the characters of q
Trim(chars) ==
    LET inside == {i \in 1..Len(chars) : chars[i] # " "}
    IN  IF inside = {} THEN <<>>
        ELSE SubSeq(chars,
                    CHOOSE i \in inside : \A j \in inside : i <= j,
                    CHOOSE i \in inside : \A j \in inside : i >= j)

\* { $regexMatch: { input, regex: new RegExp(term, 'i') } } for a term of
\* letters: the term occurs in the input, whatever the case
RegexMatch(input, term) ==
    \E i \in 1..(Len(input) - Len(term) + 1) :
        \A k \in 1..Len(term) :
            Lower(input[i + k - 1]) = Lower(term[k])

\* titleMatch, descriptionMatch and matchingComments of a task
TitleMatch(task, term) == RegexMatch(Chars(task.title), term)

DescriptionMatch(task, term) ==
    IF task.description = Absent THEN FALSE
    ELSE RegexMatch(Chars(task.description), term)

MatchingComments(task, term) ==
    SelectSeq(task.comments, LAMBDA c : RegexMatch(Chars(c.text), term))

HasCommentMatch(task, term) == Len(MatchingComments(task, term)) > 0

\* a score that counts only the best field
RelevanceScore_BestField(task, term) ==
    IF TitleMatch(task, term) THEN 3
    ELSE IF DescriptionMatch(task, term) THEN 2
    ELSE IF HasCommentMatch(task, term) THEN 1 ELSE 0

\* relevanceScore: { $add: [3 if titleMatch, 2 if descriptionMatch,
\*                          1 if hasCommentMatch] }
RelevanceScore(task, term) ==
    (IF TitleMatch(task, term) THEN 3 ELSE 0)
    + (IF DescriptionMatch(task, term) THEN 2 ELSE 0)
    + (IF HasCommentMatch(task, term) THEN 1 ELSE 0)

\* matchedFields, in the order of the $filter input
MatchedFields(task, term) ==
    (IF TitleMatch(task, term) THEN <<"title">> ELSE <<>>)
    \o (IF DescriptionMatch(task, term) THEN <<"description">> ELSE <<>>)
    \o (IF HasCommentMatch(task, term) THEN <<"comments">> ELSE <<>>)

\* a projectId that is no ObjectId
BadId == -1

\* the tasks left by the two $match stages of the pipeline
SearchMatches(term, projectId) ==
    {t \in DOMAIN tasks :
        /\ projectId # 0 => tasks[t].project = projectId
        /\ \/ TitleMatch(tasks[t], term)
           \/ DescriptionMatch(tasks[t], term)
           \/ HasCommentMatch(tasks[t], term)}

\* a sort that puts the older task first among equal scores
SearchSortsBefore_OldestFirst(a, b, term) ==
    LET sa == RelevanceScore(tasks[a], term)
        sb == RelevanceScore(tasks[b], term)
    IN  sa > sb \/ (sa = sb /\ tasks[a].createdAt <= tasks[b].createdAt)

\* { $sort: { relevanceScore: -1, createdAt: -1 } }: the sort may put task a
\* before task b
SearchSortsBefore(a, b, term) ==
    LET sa == RelevanceScore(tasks[a], term)
        sb == RelevanceScore(tasks[b], term)
    IN  sa > sb \/ (sa = sb /\ tasks[a].createdAt >= tasks[b].createdAt)

\* the orders in which the $sort stage can leave a set of tasks; tasks equal in
\* score and createdAt come in any order
SearchOrders(ids, term) ==
    {o \in [1..Cardinality(ids) -> ids] :
        /\ \A i \in DOMAIN o : \A j \in DOMAIN o : i # j => o[i] # o[j]
        /\ \A i \in DOMAIN o : \A j \in DOMAIN o :
              i < j => SearchSortsBefore(o[i], o[j], term)}

\* Math.min(parseInt(limit) || 20, 50); 0 is a limit that is not given
ResultLimit(limit) ==
    LET n == IF limit = 0 THEN 20 ELSE limit
    IN  IF n < 50 THEN n ELSE 50

\* one element of results, after the $project stage
SearchResult(tid, term, showMatchDetails) ==
    [id |-> tid,
     project |-> tasks[tid].project,
     matchDetails |->
        IF showMatchDetails
        THEN [matchedFields |-> MatchedFields(tasks[tid], term),
              relevanceScore |-> RelevanceScore(tasks[tid], term),
              matchingCommentCount |->
                  Len(MatchingComments(tasks[tid], term))]
        ELSE [matchedFields |-> <<>>, relevanceScore |-> 0,
              matchingCommentCount |-> 0],
     shown |-> showMatchDetails]

\* the status and message of the checks of searchTasksText
SearchCheck(q, projectId) ==
    IF Trim(Chars(q)) = <<>> THEN 400
    ELSE IF projectId = BadId THEN 400
    ELSE 0

\* GET /api/tasks/search/text. The handler never reads req.user; the caller
\* is kept in resp. It writes nothing, so its two aggregations are one step.
SearchTasksText(caller, q, projectId, limit, showMatchDetails) ==
    LET term == Trim(Chars(q))
        found == SearchMatches(term, projectId)
    IN  /\ events' = <<>>
        /\ IF SearchCheck(q, projectId) # 0
           THEN /\ resp' = Resp("searchTasksText", caller, projectId, NoUser,
                                SearchCheck(q, projectId))
                /\ result' = [status |-> SearchCheck(q, projectId)]
           ELSE /\ resp' = Resp("searchTasksText", caller, projectId, NoUser,
                                200)
                /\ \E o \in SearchOrders(found, term) :
                      result' =
                        [status |-> 200,
                         query |-> term,
                         totalResults |-> Cardinality(found),
                         results |->
                            [i \in 1..Len(Limit(o, ResultLimit(limit))) |->
                                SearchResult(o[i], term, showMatchDetails)]]
        /\ UNCHANGED <<httpVars, presVars, listing>>

\* ------------------------------------------------------------ specification
Init ==
    /\ projects = <<>>
    /\ tasks = <<>>
    /\ ntasks = 0
    /\ now = 0
    /\ reqs = [r \in Slots |-> IdleReq]
    /\ nreq = 0
    /\ resp = NoResp
    /\ events = <<>>
    /\ sock = [s \in Sessions |->
                  [state |-> "new", userId |-> NoUser, rooms |-> {},
                   currentProject |-> NoRoom]]
    /\ onlineUsers = <<>>
    /\ globalOnlineUsers = <<>>
    /\ listing = NoListing
    /\ result = NoResult

NextProject ==
    \E r \in Slots :
        \/ \E caller \in Users, body \in BodyMembers :
               CreateProject(r, caller, body)
        \/ \E caller \in Users, pid \in ProjectIds, userId \in Users :
               AddMemberRead(r, caller, pid, userId)
        \/ \E caller \in Users, pid \in ProjectIds, userId \in Users :
               RemoveMemberRead(r, caller, pid, userId)
        \/ AddMemberSave(r)
        \/ RemoveMemberSave(r)
        \/ MemberRefetch(r)

SpecProject == Init /\ [][NextProject]_vars

\* req.body.assignees of createTask: absent, or an array of one user id
BodyAssignees ==
    {[given |-> FALSE, list |-> <<>>]} \cup
    {[given |-> TRUE, list |-> <<u>>] : u \in Users}

\* the request bodies of createTask that are issued
TaskBodies ==
    {TaskBody("a", Absent, Absent, Absent, pid, assignees, NoDate) :
        pid \in ProjectIds, assignees \in BodyAssignees}

\* the requests on tasks; projects are created without a members array and
\* the clock moves by one tick between two createTask
NextTask ==
    \E r \in Slots :
        \/ \E caller \in Users :
               CreateProject(r, caller, [given |-> FALSE, list |-> <<>>])
        \/ \E caller \in Users, body \in TaskBodies :
               CreateTaskRead(r, caller, body, 1)
        \/ CreateTaskSave(r)
        \/ \E tid \in TaskIds, userId \in Users :
               AssignUserRead(r, tid, userId)
        \/ \E tid \in TaskIds, userId \in Users :
               UnassignUserRead(r, tid, userId)
        \/ AssignUserSave(r)
        \/ UnassignUserSave(r)
        \/ TaskRefetch(r)

SpecTask == Init /\ [][NextTask]_vars

NextPresence ==
    \E s \in Sessions :
        \/ \E userId \in Users : Connect(s, userId)
        \/ \E projectId \in RoomIds : Join(s, projectId)
        \/ \E projectId \in RoomIds : Leave(s, projectId)
        \/ Disconnect(s)
        \/ \E projectId \in RoomIds : Kicked(s, projectId)

SpecPresence == Init /\ [][NextPresence]_vars

\* connection attempts with every token, and the events of the sockets that
\* were let in
NextHandshake ==
    \E s \in Sessions :
        \/ \E token \in Tokens : Handshake(s, token)
        \/ \E projectId \in RoomIds : Join(s, projectId)
        \/ \E projectId \in RoomIds : Leave(s, projectId)
        \/ Disconnect(s)

SpecHandshake == Init /\ [][NextHandshake]_vars

\* the createdAt values of PageTasks tasks created one after the other:
\* Date.now() never goes back, and two tasks can fall in one tick
PageCreatedAts ==
    {c \in [1..PageTasks -> 1..2] :
        \A i \in 1..PageTasks : \A j \in 1..PageTasks :
            i < j => c[i] <= c[j]}

\* a collection of PageTasks tasks of project 1, created through createTask
PageCollections ==
    {[t \in 1..PageTasks |->
         [NewTask(TaskBody(f[t][1], Absent, Absent, f[t][2], 1,
                           [given |-> FALSE, list |-> <<>>], f[t][3]),
                  c[t])
          EXCEPT !.assignees = IF t = 1 THEN <<"u1">> ELSE <<>>]] :
        f \in [1..PageTasks -> {"a", "b"} \X {"high", "low"} \X {NoDate, 1}],
        c \in PageCreatedAts}

\* the state after u1 created project 1 and PageTasks tasks in it, and
\* assigned the first task to u1
InitPage ==
    /\ projects = <<[owner |-> "u1", members |-> <<"u1">>, v |-> 0]>>
    /\ tasks \in PageCollections
    /\ ntasks = PageTasks
    /\ now = tasks[PageTasks].createdAt
    /\ reqs = [r \in Slots |-> IdleReq]
    /\ nreq = 0
    /\ resp = NoResp
    /\ events = <<>>
    /\ sock = [s \in Sessions |->
                  [state |-> "new", userId |-> NoUser, rooms |-> {},
                   currentProject |-> NoRoom]]
    /\ onlineUsers = <<>>
    /\ globalOnlineUsers = <<>>
    /\ listing = NoListing
    /\ result = NoResult

\* the filters a client of GET /api/tasks uses: status, priority, assignee,
\* projectId (2 is a project the user is no member of)
PageFilters ==
    {<<Absent, Absent, Absent, 0>>, <<Absent, "high", Absent, 0>>,
     <<"todo", Absent, "u1", 1>>, <<Absent, Absent, Absent, 2>>}

PageQueries ==
    {Query(user, limit, f[1], f[2], f[3], f[4], sortBy, sortOrder) :
        user \in Users, limit \in 1..MaxLimit, f \in PageFilters,
        sortBy \in {"createdAt", "dueDate", "priority", "title"},
        sortOrder \in {"asc", "desc"}}

NextPageSpec ==
    \/ \E q \in PageQueries : FirstPage(q)
    \/ NextPage

SpecPage == InitPage /\ [][NextPageSpec]_vars

\* the collections that searches run on: SearchTasks tasks of project 1, as
\* createTask, updateTask and addComment of u1 leave them
SearchCollections ==
    {[t \in 1..SearchTasks |->
         [NewTask(TaskBody(f[t][1], f[t][2], Absent, Absent, 1,
                           [given |-> FALSE, list |-> <<>>], NoDate),
                  c[t])
          EXCEPT !.comments = f[t][3], !.v = Len(f[t][3])]] :
        f \in [1..SearchTasks ->
                 {"Ab", "b"} \X {Absent, "a"}
                 \X {<<>>,
                     <<CommentOf("u1", "b", 2), CommentOf("u1", "a", 2)>>}],
        c \in [1..SearchTasks -> 1..2]}

InitSearch ==
    /\ projects = <<[owner |-> "u1", members |-> <<"u1">>, v |-> 0]>>
    /\ tasks \in SearchCollections
    /\ \A i \in 1..SearchTasks : \A j \in 1..SearchTasks :
          i < j => tasks[i].createdAt <= tasks[j].createdAt
    /\ ntasks = SearchTasks
    /\ now = 2
    /\ reqs = [r \in Slots |-> IdleReq]
    /\ nreq = 0
    /\ resp = NoResp
    /\ events = <<>>
    /\ sock = [s \in Sessions |->
                  [state |-> "new", userId |-> NoUser, rooms |-> {},
                   currentProject |-> NoRoom]]
    /\ onlineUsers = <<>>
    /\ globalOnlineUsers = <<>>
    /\ listing = NoListing
    /\ result = NoResult

\* one search on the collection; searches write nothing, so a second one
\* sees what the first one saw
NextSearch ==
    \E caller \in Users, q \in {"a", " B", " "},
       projectId \in {0, 1, BadId}, limit \in 0..MaxSearchLimit,
       showMatchDetails \in BOOLEAN :
        /\ resp = NoResp
        /\ SearchTasksText(caller, q, projectId, limit, showMatchDetails)

SpecSearch == InitSearch /\ [][NextSearch]_vars

\* the requests that are gated on a project: every caller, every project id,
\* user u2 as the member to add or remove and one createTask body a project
NextGate ==
    \/ \E caller \in Users, pid \in ProjectIds : GetProjectById(caller, pid)
    \/ \E r \in Slots :
        \/ \E caller \in Users :
               CreateProject(r, caller, [given |-> FALSE, list |-> <<>>])
        \/ \E caller \in Users, pid \in ProjectIds :
               GetTasksByProjectRead(r, caller, pid, NoPageQuery)
        \/ GetTasksByProjectFind(r)
        \/ \E caller \in Users, pid \in ProjectIds :
               AddMemberRead(r, caller, pid, "u2")
        \/ \E caller \in Users, pid \in ProjectIds :
               RemoveMemberRead(r, caller, pid, "u2")
        \/ AddMemberSave(r)
        \/ RemoveMemberSave(r)
        \/ MemberRefetch(r)
        \/ \E caller \in Users, pid \in ProjectIds :
               CreateTaskRead(r, caller,
                              TaskBody("a", Absent, Absent, Absent, pid,
                                       [given |-> FALSE, list |-> <<>>],
                                       NoDate), 1)
        \/ CreateTaskSave(r)
        \/ TaskRefetch(r)

SpecGate == Init /\ [][NextGate]_vars

\* the bodies of createTask with status and priority given or left out
CreateBodies ==
    {TaskBody("a", Absent, sp[1], sp[2], pid,
              [given |-> FALSE, list |-> <<>>], NoDate) :
        pid \in ProjectIds,
        sp \in {<<Absent, Absent>>, <<"done", Absent>>, <<Absent, "high">>,
                <<"in-progress", "low">>}}

\* createTask by every caller on every project id
NextCreate ==
    \E r \in Slots :
        \/ \E caller \in Users :
               CreateProject(r, caller, [given |-> FALSE, list |-> <<>>])
        \/ \E caller \in Users, body \in CreateBodies :
               CreateTaskRead(r, caller, body, 1)
        \/ CreateTaskSave(r)
        \/ TaskRefetch(r)

SpecCreate == Init /\ [][NextCreate]_vars

\* one project of u1 and one task of it with every field set and a comment
InitEdit ==
    /\ projects = <<[owner |-> "u1", members |-> <<"u1">>, v |-> 0]>>
    /\ tasks = <<[project |-> 1, title |-> "a", description |-> "a",
                  status |-> "todo", priority |-> "medium", dueDate |-> 1,
                  createdAt |-> 1, assignees |-> <<"u1">>,
                  comments |-> <<CommentOf("u1", "a", 1)>>, v |-> 0]>>
    /\ ntasks = 1
    /\ now = 2
    /\ reqs = [r \in Slots |-> IdleReq]
    /\ nreq = 0
    /\ resp = NoResp
    /\ events = <<>>
    /\ sock = [s \in Sessions |->
                  [state |-> "new", userId |-> NoUser, rooms |-> {},
                   currentProject |-> NoRoom]]
    /\ onlineUsers = <<>>
    /\ globalOnlineUsers = <<>>
    /\ listing = NoListing
    /\ result = NoResult

\* the bodies of updateTask: one field, two fields, an empty description, a
\* dueDate of null, a value that the task already has
UpdateBodies ==
    {UpdateBody("b", Absent, Absent, Absent, DateAbsent),
     UpdateBody(Absent, "", Absent, Absent, DateAbsent),
     UpdateBody(Absent, Absent, "done", "high", DateAbsent),
     UpdateBody(Absent, Absent, Absent, Absent, 2),
     UpdateBody("a", Absent, Absent, Absent, NoDate)}

\* the task ids that a request names, the task and an id that names no task,
\* while requests are issued
EditIds == IF nreq < EditReqs THEN {1, MaxTasks + 1} ELSE {}

\* updateTask and deleteTask on the task and on an id that names no task
NextUpdate ==
    \E r \in Slots :
        \/ \E tid \in EditIds, body \in UpdateBodies :
               UpdateTaskRead(r, tid, body)
        \/ UpdateTaskSave(r)
        \/ \E tid \in EditIds : DeleteTaskRead(r, tid)
        \/ DeleteTaskDelete(r)
        \/ TaskRefetch(r)

SpecUpdate == InitEdit /\ [][NextUpdate]_vars

\* addComment by every user, and deleteTask
NextComment ==
    \E r \in Slots :
        \/ \E caller \in Users, tid \in EditIds :
               AddCommentRead(r, caller, tid, "b")
        \/ AddCommentSave(r)
        \/ AddCommentRefetch(r)
        \/ \E tid \in EditIds : DeleteTaskRead(r, tid)
        \/ DeleteTaskDelete(r)

\* addComment by every user together with the other writes on the task:
\* updateTask, assignUser, unassignUser and deleteTask
NextTaskWrites ==
    \E r \in Slots :
        \/ \E caller \in Users, tid \in EditIds :
               AddCommentRead(r, caller, tid, "b")
        \/ AddCommentSave(r)
        \/ AddCommentRefetch(r)
        \/ \E tid \in EditIds :
               UpdateTaskRead(r, tid, UpdateBody("b", "", Absent, Absent,
                                                 DateAbsent))
        \/ UpdateTaskSave(r)
        \/ \E tid \in EditIds : AssignUserRead(r, tid, "u2")
        \/ AssignUserSave(r)
        \/ \E tid \in EditIds : UnassignUserRead(r, tid, "u1")
        \/ UnassignUserSave(r)
        \/ TaskRefetch(r)
        \/ \E tid \in EditIds : DeleteTaskRead(r, tid)
        \/ DeleteTaskDelete(r)

SpecTaskWrites == InitEdit /\ [][NextTaskWrites]_vars

SpecComment == InitEdit /\ [][NextComment]_vars

\* project 1 of u1 without tasks, and no socket
InitFanout ==
    /\ projects = <<[owner |-> "u1", members |-> <<"u1">>, v |-> 0]>>
    /\ tasks = <<>>
    /\ ntasks = 0
    /\ now = 1
    /\ reqs = [r \in Slots |-> IdleReq]
    /\ nreq = 0
    /\ resp = NoResp
    /\ events = <<>>
    /\ sock = [s \in Sessions |->
                  [state |-> "new", userId |-> NoUser, rooms |-> {},
                   currentProject |-> NoRoom]]
    /\ onlineUsers = <<>>
    /\ globalOnlineUsers = <<>>
    /\ listing = NoListing
    /\ result = NoResult

\* the callers of the requests of u1, while requests are issued
FanoutCallers == IF nreq < FanoutReqs THEN {"u1"} ELSE {}

\* sockets of u2 that connect, join the rooms and disconnect, while u1
\* creates a task in project 1, changes it, comments on it and deletes it,
\* one request after the other
NextFanout ==
    \/ \E s \in Sessions :
        \/ Connect(s, "u2")
        \/ \E projectId \in RoomIds : Join(s, projectId)
        \/ Disconnect(s)
    \/ \E r \in {1} :
        \/ \E caller \in FanoutCallers :
               CreateTaskRead(r, caller,
                              TaskBody("a", Absent, Absent, Absent, 1,
                                       [given |-> FALSE, list |-> <<>>],
                                       NoDate), 1)
        \/ CreateTaskSave(r)
        \/ \E caller \in FanoutCallers :
               UpdateTaskRead(r, 1, UpdateBody("b", Absent, Absent, Absent,
                                               DateAbsent))
        \/ UpdateTaskSave(r)
        \/ TaskRefetch(r)
        \/ \E caller \in FanoutCallers : DeleteTaskRead(r, 1)
        \/ DeleteTaskDelete(r)
        \/ \E caller \in FanoutCallers : AddCommentRead(r, caller, 1, "b")
        \/ AddCommentSave(r)
        \/ AddCommentRefetch(r)

SpecFanout == InitFanout /\ [][NextFanout]_vars

\* the owner adds u2 to project 1 and removes u2 again, while sockets of both
\* users connect, join the rooms and disconnect
NextMemberFanout ==
    \/ \E s \in Sessions :
        \/ \E userId \in Users : Connect(s, userId)
        \/ \E projectId \in RoomIds : Join(s, projectId)
        \/ Disconnect(s)
    \/ \E r \in Slots :
        \/ \E caller \in FanoutCallers : AddMemberRead(r, caller, 1, "u2")
        \/ \E caller \in FanoutCallers : RemoveMemberRead(r, caller, 1, "u2")
        \/ AddMemberSave(r)
        \/ RemoveMemberSave(r)
        \/ MemberRefetch(r)

SpecMemberFanout == InitFanout /\ [][NextMemberFanout]_vars

\* project 1 of u1 with PageTasks tasks of high or low priority, created one
\* after the other
LiveCollections ==
    {[t \in 1..PageTasks |->
         NewTask(TaskBody("a", Absent, Absent, f[t], 1,
                          [given |-> FALSE, list |-> <<>>], NoDate), c[t])] :
        f \in [1..PageTasks -> {"high", "low"}], c \in PageCreatedAts}

InitLive ==
    /\ projects = <<[owner |-> "u1", members |-> <<"u1">>, v |-> 0]>>
    /\ tasks \in LiveCollections
    /\ ntasks = PageTasks
    /\ now = tasks[PageTasks].createdAt
    /\ reqs = [r \in Slots |-> IdleReq]
    /\ nreq = 0
    /\ resp = NoResp
    /\ events = <<>>
    /\ sock = [s \in Sessions |->
                  [state |-> "new", userId |-> NoUser, rooms |-> {},
                   currentProject |-> NoRoom]]
    /\ onlineUsers = <<>>
    /\ globalOnlineUsers = <<>>
    /\ listing = NoListing
    /\ result = NoResult

\* the listings of u1 in the default sort, of all tasks or of those of high
\* priority
LiveQueries ==
    {Query("u1", limit, Absent, priority, Absent, 0, Absent, Absent) :
        limit \in 1..MaxLimit, priority \in {Absent, "high"}}

\* the task ids that a deleteTask names between two pages of the listing
LiveIds ==
    IF listing.state = "more" /\ nreq < LiveWrites THEN 1..PageTasks ELSE {}

\* the callers of createTask between two pages of the listing
LiveCallers ==
    IF listing.state = "more" /\ nreq < LiveWrites THEN {"u1"} ELSE {}

\* a listing of u1 that follows nextCursor while tasks of high priority are
\* created and tasks are deleted between its pages
NextLive ==
    \/ \E q \in LiveQueries : FirstPage(q)
    \/ NextPage
    \/ \E r \in Slots :
        \/ \E caller \in LiveCallers :
               CreateTaskReadUpTo(r, caller,
                   TaskBody("a", Absent, Absent, "high", 1,
                            [given |-> FALSE, list |-> <<>>], NoDate),
                   1, PageTasks + LiveWrites)
        \/ CreateTaskSave(r)
        \/ TaskRefetch(r)
        \/ \E tid \in LiveIds : DeleteTaskRead(r, tid)
        \/ DeleteTaskDelete(r)

SpecLive == InitLive /\ [][NextLive]_vars

\* the listings of project 1 by u2
AuthQueries == {Query("u2", 1, Absent, Absent, Absent, 1, Absent, Absent)}

\* the owner u1 adds u2 to project 1 and removes u2 again, while u2 reads
\* project 1, lists its tasks and creates a task in it
NextAuth ==
    \/ GetProjectById("u2", 1)
    \/ \E q \in AuthQueries : FirstPage(q)
    \/ \E r \in Slots :
        \/ AddMemberRead(r, "u1", 1, "u2")
        \/ RemoveMemberRead(r, "u1", 1, "u2")
        \/ AddMemberSave(r)
        \/ RemoveMemberSave(r)
        \/ MemberRefetch(r)
        \/ GetTasksByProjectRead(r, "u2", 1, NoPageQuery)
        \/ GetTasksByProjectFind(r)
        \/ CreateTaskRead(r, "u2",
               TaskBody("a", Absent, Absent, Absent, 1,
                        [given |-> FALSE, list |-> <<>>], NoDate), 1)
        \/ CreateTaskSave(r)
        \/ TaskRefetch(r)

SpecAuth == InitFanout /\ [][NextAuth]_vars

\* project 1 of u1 with PageTasks tasks that are todo or done, of high or low
\* priority, assigned to u1 or to nobody
FilterCollections ==
    {[t \in 1..PageTasks |->
         NewTask(TaskBody("a", Absent, f[t][1], f[t][2], 1,
                          [given |-> TRUE, list |-> f[t][3]], NoDate), t)] :
        f \in [1..PageTasks ->
                 {"todo", "done"} \X {"high", "low"} \X {<<>>, <<"u1">>}]}

InitFilter ==
    /\ projects = <<[owner |-> "u1", members |-> <<"u1">>, v |-> 0]>>
    /\ tasks \in FilterCollections
    /\ ntasks = PageTasks
    /\ now = PageTasks
    /\ reqs = [r \in Slots |-> IdleReq]
    /\ nreq = 0
    /\ resp = NoResp
    /\ events = <<>>
    /\ sock = [s \in Sessions |->
                  [state |-> "new", userId |-> NoUser, rooms |-> {},
                   currentProject |-> NoRoom]]
    /\ onlineUsers = <<>>
    /\ globalOnlineUsers = <<>>
    /\ listing = NoListing
    /\ result = NoResult

\* listings of u1 in the default sort with every combination of the filters
\* status=done, priority=high and assignee=u1, with and without projectId
FilterQueries ==
    {Query("u1", limit, status, priority, assignee, projectId, Absent,
           Absent) :
        limit \in 1..MaxLimit, status \in {Absent, "done"},
        priority \in {Absent, "high"}, assignee \in {Absent, "u1"},
        projectId \in {0, 1}}

NextFilter ==
    \/ \E q \in FilterQueries : FirstPage(q)
    \/ NextPage

SpecFilter == InitFilter /\ [][NextFilter]_vars

\* req.params of the routes with :id, a task, an id of no task, no ObjectId
RouteParams == IF nreq < RouteReqs THEN {[id |-> 1], [id |-> MaxTasks + 1],
                                       [id |-> BadId]}
               ELSE {}

\* req.body of PUT /api/tasks/:id: a field, two fields, a status that is not
\* in the enum, an empty title, an unknown key with and without a field, an
\* empty body
PutBodies ==
    {[title |-> "b"], [status |-> "done", priority |-> "high"],
     [status |-> "invalid-status"], [title |-> ""], [description |-> ""],
     [priority |-> "high", role |-> "admin"], [role |-> "admin"],
     [title |-> "b", status |-> "invalid-status"], <<>>}

\* req.body of POST /api/tasks/:id/comments
CommentBodies ==
    {[text |-> "b"], [text |-> ""], [text |-> "b", role |-> "admin"],
     [role |-> "admin"], <<>>}

\* the routes of updateTask and addComment with their validation middleware
NextValidate ==
    \E r \in Slots :
        \/ \E params \in RouteParams, body \in PutBodies :
               PutTask(r, params, body)
        \/ UpdateTaskSave(r)
        \/ TaskRefetch(r)
        \/ \E params \in RouteParams, body \in CommentBodies :
               PostComment(r, "u1", params, body)
        \/ AddCommentSave(r)
        \/ AddCommentRefetch(r)

SpecValidate == InitEdit /\ [][NextValidate]_vars

\* the users that issue requests, while requests are issued
EditCallers == IF nreq < EditReqs THEN Users ELSE {}

\* every handler of the two controllers that can answer 400, 401 or 404, on
\* the project and the task of InitEdit and on ids that name nothing, with
\* callers that are and are not the owner or a member
NextErrors ==
    \E r \in Slots :
        \/ \E caller \in EditCallers, pid \in {1, MaxProjects + 1} :
               AddMemberRead(r, caller, pid, "u2")
        \/ \E caller \in EditCallers, pid \in {1, MaxProjects + 1},
                userId \in Users :
               RemoveMemberRead(r, caller, pid, userId)
        \/ AddMemberSave(r)
        \/ RemoveMemberSave(r)
        \/ MemberRefetch(r)
        \/ \E caller \in EditCallers, pid \in {1, MaxProjects + 1} :
               CreateTaskReadUpTo(r, caller,
                   TaskBody("a", Absent, Absent, Absent, pid,
                            [given |-> FALSE, list |-> <<>>], NoDate),
                   2, MaxTasks + 1)
        \/ CreateTaskSave(r)
        \/ \E tid \in EditIds, body \in {[status |-> "done"],
                                         [status |-> "invalid-status"]} :
               PutTask(r, [id |-> tid], body)
        \/ UpdateTaskSave(r)
        \/ \E tid \in EditIds, userId \in Users :
               AssignUserRead(r, tid, userId)
        \/ AssignUserSave(r)
        \/ \E tid \in EditIds : UnassignUserRead(r, tid, "u1")
        \/ UnassignUserSave(r)
        \/ TaskRefetch(r)
        \/ \E tid \in EditIds : AddCommentRead(r, "u1", tid, "b")
        \/ AddCommentSave(r)
        \/ AddCommentRefetch(r)
        \/ \E tid \in EditIds : DeleteTaskRead(r, tid)
        \/ DeleteTaskDelete(r)

SpecErrors == InitEdit /\ [][NextErrors]_vars

\* the five socket handlers; sockets join either room and leave, or are
\* kicked from, room 1
NextBroadcast ==
    \E s \in Sessions :
        \/ \E userId \in Users : Connect(s, userId)
        \/ \E projectId \in RoomIds : Join(s, projectId)
        \/ Leave(s, 1)
        \/ Disconnect(s)
        \/ Kicked(s, 1)

SpecBroadcast == Init /\ [][NextBroadcast]_vars

\* every handler that takes a task id, the listing of the project and
\* createTask, on the task of InitEdit
NextPermanent ==
    \/ \E tid \in EditIds : GetTaskById(tid)
    \/ \E r \in Slots :
        \/ \E tid \in EditIds : DeleteTaskRead(r, tid)
        \/ DeleteTaskDelete(r)
        \/ \E tid \in EditIds :
               UpdateTaskRead(r, tid, UpdateBody("b", Absent, Absent, Absent,
                                                 DateAbsent))
        \/ UpdateTaskSave(r)
        \/ \E tid \in EditIds : AssignUserRead(r, tid, "u2")
        \/ AssignUserSave(r)
        \/ \E tid \in EditIds : UnassignUserRead(r, tid, "u1")
        \/ UnassignUserSave(r)
        \/ TaskRefetch(r)
        \/ \E tid \in EditIds : AddCommentRead(r, "u1", tid, "b")
        \/ AddCommentSave(r)
        \/ AddCommentRefetch(r)
        \/ \E caller \in EditCallers :
               GetTasksByProjectRead(r, caller, 1, NoPageQuery)
        \/ GetTasksByProjectFind(r)
        \/ \E caller \in EditCallers :
               CreateTaskReadUpTo(r, caller,
                   TaskBody("a", Absent, Absent, Absent, 1,
                            [given |-> FALSE, list |-> <<>>], NoDate),
                   1, MaxTasks + 1)
        \/ CreateTaskSave(r)

SpecPermanent == InitEdit /\ [][NextPermanent]_vars

\* the callers of the requests of u1, while requests are issued
StatsCallers == IF nreq < StatsReqs THEN {"u1"} ELSE {}

\* sockets that connect and disconnect while u1 creates a task in project 1,
\* changes it, assigns and unassigns u2, comments on it and deletes it, one
\* request after the other; the requests issued while the task is not there,
\* and an assignUser of an assigned user, fail
NextStats ==
    \/ \E s \in Sessions :
        \/ Connect(s, "u2")
        \/ Disconnect(s)
    \/ \E r \in {1} :
        \/ \E caller \in StatsCallers :
               CreateTaskRead(r, caller,
                              TaskBody("a", Absent, Absent, Absent, 1,
                                       [given |-> FALSE, list |-> <<>>],
                                       NoDate), 1)
        \/ CreateTaskSave(r)
        \/ \E caller \in StatsCallers :
               UpdateTaskRead(r, 1, UpdateBody("b", Absent, Absent, Absent,
                                               DateAbsent))
        \/ UpdateTaskSave(r)
        \/ \E caller \in StatsCallers : AssignUserRead(r, 1, "u2")
        \/ AssignUserSave(r)
        \/ \E caller \in StatsCallers : UnassignUserRead(r, 1, "u2")
        \/ UnassignUserSave(r)
        \/ TaskRefetch(r)
        \/ \E caller \in StatsCallers : DeleteTaskRead(r, 1)
        \/ DeleteTaskDelete(r)
        \/ \E caller \in StatsCallers : AddCommentRead(r, caller, 1, "b")
        \/ AddCommentSave(r)
        \/ AddCommentRefetch(r)

SpecStats == InitFanout /\ [][NextStats]_vars

\* ------------------------------------------------------------------ claims
\* the step is the first step of a request that is answered at once
Answered(op) == nreq' # nreq /\ resp'.op = op

\* the step is the first step of a request in slot r that goes on to its save
Passed(r, op) == reqs[r].pc = "idle" /\ reqs'[r].op = op

\* the step is the database write of the request in slot r
Saved(r, op) ==
    reqs[r].op = op /\ reqs[r].pc = "save" /\ reqs'[r].pc = "refetch"

OthersUnchanged(pid) ==
    /\ DOMAIN projects' = DOMAIN projects
    /\ \A p \in DOMAIN projects : p # pid => projects'[p] = projects[p]
    /\ projects'[pid].owner = projects[pid].owner

\* C1: every project's owner is in its members list, in every state; a
\* removeMember whose target is the owner never gets to its save and is
\* answered with an error status.
C1_OwnerIsMember ==
    /\ \A p \in DOMAIN projects :
           Includes(projects[p].members, projects[p].owner)
    /\ \A r \in Slots :
           reqs[r].op = "removeMember" =>
               reqs[r].arg # projects[reqs[r].id].owner
    /\ (resp.op = "removeMember" /\ resp.id \in DOMAIN projects
            /\ resp.arg = projects[resp.id].owner)
           => resp.status \in {400, 401}

\* the owner asked to remove the owner of a project whose membership had
\* already changed, and was refused
C1_Witness ==
    /\ resp.op = "removeMember" /\ resp.status = 400
    /\ resp.id \in DOMAIN projects
    /\ resp.user = projects[resp.id].owner
    /\ resp.arg = projects[resp.id].owner
    /\ projects[resp.id].v > 0
    /\ Len(projects[resp.id].members) >= 2

\* what one step may do to the projects on behalf of a removeMember request
RemoveMemberStep ==
    /\ \A r \in Slots : Passed(r, "removeMember") =>
          (LET q == reqs'[r]
           IN  /\ q.id \in DOMAIN projects
               /\ q.user = projects[q.id].owner
               /\ q.arg # projects[q.id].owner
               /\ Includes(projects[q.id].members, q.arg)
               /\ projects' = projects)
    /\ Answered("removeMember") =>
          /\ projects' = projects
          /\ resp'.status \in {400, 401, 404}
          /\ (resp'.status = 404) <=> (resp'.id \notin DOMAIN projects)
          /\ (resp'.status = 401) =>
                 (resp'.user # projects[resp'.id].owner)
          /\ (resp'.status = 400) =>
                 /\ resp'.user = projects[resp'.id].owner
                 /\ \/ resp'.arg = projects[resp'.id].owner
                    \/ ~Includes(projects[resp'.id].members, resp'.arg)
    /\ \A r \in Slots : Saved(r, "removeMember") =>
          /\ projects'[reqs[r].id].members =
                 FilterOut(projects[reqs[r].id].members, reqs[r].arg)
          /\ OthersUnchanged(reqs[r].id)
    /\ (resp'.op = "removeMember" /\ resp' # resp) => projects' = projects

\* C7: removeMember reaches its save only for the owner as caller, a target
\* other than the owner and a target in the members list; its save makes the
\* members list the stored list without the target; a non-owner caller is
\* answered 401, an owner or non-member target 400, and no step of a
\* rejected removeMember changes any project.
C7_RemoveMember == [][RemoveMemberStep]_vars

\* a removeMember was answered 200 and the target is gone, others remain
C7_Witness ==
    /\ resp.op = "removeMember" /\ resp.status = 200
    /\ ~Includes(projects[resp.id].members, resp.arg)
    /\ Len(projects[resp.id].members) >= 2

\* what one step may do to the projects on behalf of an addMember request
AddMemberStep ==
    /\ \A r \in Slots : Passed(r, "addMember") =>
          (LET q == reqs'[r]
           IN  /\ q.id \in DOMAIN projects
               /\ q.user = projects[q.id].owner
               /\ ~Includes(projects[q.id].members, q.arg)
               /\ projects' = projects)
    /\ Answered("addMember") =>
          /\ projects' = projects
          /\ resp'.status \in {400, 401, 404}
          /\ (resp'.status = 404) <=> (resp'.id \notin DOMAIN projects)
          /\ (resp'.status = 401) =>
                 (resp'.user # projects[resp'.id].owner)
          /\ (resp'.status = 400) =>
                 /\ resp'.user = projects[resp'.id].owner
                 /\ Includes(projects[resp'.id].members, resp'.arg)
    /\ \A r \in Slots : Saved(r, "addMember") =>
          /\ projects'[reqs[r].id].members =
                 Append(projects[reqs[r].id].members, reqs[r].arg)
          /\ OthersUnchanged(reqs[r].id)
    /\ (resp'.op = "addMember" /\ resp' # resp) => projects' = projects

\* C8: addMember reaches its save only for the owner as caller and a target
\* that is not in the members list; its save makes the members list the
\* stored list plus the target; a non-owner caller is answered 401, a target
\* that is already a member 400, and no step of a rejected addMember changes
\* any project.
C8_AddMember == [][AddMemberStep]_vars

\* an addMember was answered 200 and the target is in the list, after the
\* owner and one more entry
C8_Witness ==
    /\ resp.op = "addMember" /\ resp.status = 200
    /\ Includes(projects[resp.id].members, resp.arg)
    /\ Len(projects[resp.id].members) >= 3

\* some entry of the per-project map of p carries socket id s
EntryOf(s, p) ==
    /\ p \in DOMAIN onlineUsers
    /\ \E u \in DOMAIN onlineUsers[p] : onlineUsers[p][u].socketId = s

\* userId is listed in the per-project map of p
Listed(userId, p) ==
    p \in DOMAIN onlineUsers /\ userId \in DOMAIN onlineUsers[p]

SecondSessionStep ==
    \A s1, s2 \in Sessions : \A p \in RoomIds :
        (/\ s1 # s2
         /\ sock[s1].state = "open" /\ sock[s2].state = "open"
         /\ sock[s1].userId = sock[s2].userId
         /\ p \in sock[s1].rooms /\ p \in sock[s2].rooms
         /\ Disconnect(s1))
        => (p \in sock'[s2].rooms => Listed(sock[s2].userId, p)')

\* C3: when two sockets of one user are both in room p and one of them
\* disconnects, the user is still listed in the per-project map of p after
\* the disconnect handler, the other socket being still in the room.
C3_SecondSessionKeepsUser == [][SecondSessionStep]_vars

\* C4: once a socket is disconnected no per-project map holds an entry with
\* its socket id and the global map holds no entry with its socket id.
C4_DisconnectedSocketGone ==
    \A s \in Sessions :
        sock[s].state = "closed" =>
            /\ \A p \in RoomIds : ~EntryOf(s, p)
            /\ \A u \in DOMAIN globalOnlineUsers :
                   globalOnlineUsers[u].socketId # s

\* C5: a user is a key of the per-project map of p only if some open socket
\* of that user is in room p.
C5_ListedOnlyWhileJoined ==
    \A p \in DOMAIN onlineUsers : \A u \in DOMAIN onlineUsers[p] :
        \E s \in Sessions :
            /\ sock[s].state = "open"
            /\ sock[s].userId = u
            /\ p \in sock[s].rooms

SwitchRoomStep ==
    \A s \in Sessions : \A p1, p2 \in RoomIds :
        (/\ p1 # p2
         /\ p1 \in sock[s].rooms
         /\ EntryOf(s, p1)
         /\ Join(s, p2))
        => /\ ~EntryOf(s, p1)'
           /\ p1 \notin sock'[s].rooms
           /\ EntryOf(s, p2)'
           /\ sock[s].userId \in DOMAIN globalOnlineUsers'
           /\ globalOnlineUsers'[sock[s].userId].currentProject = p2

\* C6: a project:join(p2) handled by a socket that is in room p1 and has its
\* entry in the map of p1, p1 # p2, leaves the socket out of room p1 and its
\* entry out of the map of p1, puts its entry in the map of p2 and sets the
\* global entry's currentProject to p2.
C6_JoinLeavesPreviousRoom == [][SwitchRoomStep]_vars

\* what one step may do on behalf of an assignUser for a user who is in the
\* stored assignee list, and what the save of an assignUser does
AssignStep ==
    /\ \A tid \in DOMAIN tasks : \A u \in Users :
          (/\ Includes(tasks[tid].assignees, u)
           /\ \E r \in Slots : AssignUserRead(r, tid, u))
          => /\ resp' = Resp("assignUser", NoUser, tid, u, 400)
             /\ tasks' = tasks
             /\ events' = <<>>
             /\ \A r \in Slots : reqs'[r].op # "assignUser"
                                    \/ reqs'[r] = reqs[r]
    /\ \A r \in Slots : Saved(r, "assignUser") =>
          Includes(tasks'[reqs[r].id].assignees, reqs[r].arg)

\* C9: an assignUser for a user who is in the task's assignee list is
\* answered 400, changes no task and emits no event; a saved assignUser
\* leaves the user in the list, so the next one for that user is refused.
C9_AssignTwiceRejected == [][AssignStep]_vars

\* the second assignUser of a user was answered 400 after the first was saved
C9_Witness ==
    /\ resp.op = "assignUser" /\ resp.status = 400
    /\ resp.id \in DOMAIN tasks
    /\ tasks[resp.id].v > 0
    /\ Includes(tasks[resp.id].assignees, resp.arg)

\* what the steps of an unassignUser do to the stored assignee list
UnassignStep ==
    /\ \A tid \in DOMAIN tasks : \A u \in Users : \A r \in Slots :
          UnassignUserRead(r, tid, u) =>
              /\ reqs'[r].op = "unassignUser" /\ reqs'[r].pc = "save"
              /\ resp' = NoResp
              /\ tasks' = tasks
    /\ \A r \in Slots :
          (/\ UnassignUserSave(r)
           /\ reqs[r].id \in DOMAIN tasks
           /\ ~Includes(reqs[r].doc.assignees, reqs[r].arg))
          => /\ tasks' = tasks
             /\ reqs'[r].pc = "refetch"
    /\ \A r \in Slots :
          (Saved(r, "unassignUser") /\ tasks' # tasks) =>
              /\ tasks'[reqs[r].id].assignees =
                     FilterOut(tasks[reqs[r].id].assignees, reqs[r].arg)
              /\ UnassignList(tasks'[reqs[r].id].assignees, reqs[r].arg)
                     = tasks'[reqs[r].id].assignees
              /\ \A t \in DOMAIN tasks :
                     t # reqs[r].id => tasks'[t] = tasks[t]
    /\ \A r \in Slots :
          (/\ reqs[r].op = "unassignUser" /\ reqs[r].pc = "refetch"
           /\ TaskRefetch(r))
          => resp'.status = 200 /\ tasks' = tasks

\* C10: unassignUser on an existing task never fails its checks; when the
\* user is not in the assignee list it read, its save leaves every task as
\* it is and succeeds; when its save writes, the stored list becomes the old
\* one without the user, which a second unassignUser of that user would
\* leave as it is; an unassignUser that saved is answered 200.
C10_UnassignIdempotent == [][UnassignStep]_vars

\* an unassignUser of a user who was never assigned was answered 200 and the
\* assignees of the task are still there
C10_Witness ==
    /\ resp.op = "unassignUser" /\ resp.status = 200
    /\ resp.id \in DOMAIN tasks
    /\ tasks[resp.id].v = 0
    /\ tasks[resp.id].assignees # <<>>
    /\ ~Includes(tasks[resp.id].assignees, resp.arg)

\* the ids that one call of getAllTasks returns for the listing's filter and
\* sort when its limit is the size of the collection
Unpaginated(q) ==
    LET all == GetAllTasksBody([q EXCEPT !.limit = Cardinality(DOMAIN tasks)],
                               NoCursor).tasks
    IN  {all[i] : i \in 1..Len(all)}

\* C2: a listing that followed nextCursor until hasMore was false has got
\* exactly the ids of the unpaginated fetch of its filter, each id once,
\* for every sort field, sort order and limit.
C2_PagesGiveEveryTaskOnce ==
    listing.state = "done" =>
        /\ {listing.got[i] : i \in 1..Len(listing.got)}
               = Unpaginated(listing.q)
        /\ Len(listing.got) = Cardinality(Unpaginated(listing.q))

\* the tasks that a call of the listing's query with a cursor selects from:
\* those of the requester's projects that pass the filters and lie beyond
\* the cursor
Selected(q, cursor) ==
    {t \in DOMAIN tasks :
        /\ Includes(projects[tasks[t].project].members, q.user)
        /\ q.projectId # 0 => tasks[t].project = q.projectId
        /\ q.status # Absent => tasks[t].status = q.status
        /\ q.priority # Absent => tasks[t].priority = q.priority
        /\ q.assignee # Absent => Includes(tasks[t].assignees, q.assignee)
        /\ cursor # NoCursor =>
              IF q.sortOrder = "asc" THEN t > cursor ELSE t < cursor}

\* task a is not after task b in the sort of the query
InOrder(a, b, q) ==
    LET ka == SortKey(tasks[a], q.sortBy)
        kb == SortKey(tasks[b], q.sortBy)
    IN  IF q.sortOrder = "asc" THEN ka < kb \/ (ka = kb /\ a <= b)
                               ELSE ka > kb \/ (ka = kb /\ a >= b)

\* what one answered call of the listing gives the client
PageStep ==
    (listing' # listing /\ resp'.status = 200) =>
        LET q == listing'.q
            cursor == IF listing.state = "more" THEN listing.cursor
                                                ELSE NoCursor
            before == IF cursor = NoCursor THEN 0 ELSE Len(listing.got)
            page == SubSeq(listing'.got, before + 1, Len(listing'.got))
            sel == Selected(q, cursor)
            ids == {page[i] : i \in 1..Len(page)}
        IN  /\ Len(page) <= q.limit
            /\ Len(page) = Cardinality(ids)
            /\ ids \subseteq sel
            /\ \A i \in 1..Len(page) : \A j \in 1..Len(page) :
                   i < j => InOrder(page[i], page[j], q)
            /\ \A t \in sel \ ids : \A i \in 1..Len(page) :
                   InOrder(page[i], t, q)
            /\ IF Cardinality(sel) > q.limit
               THEN /\ Len(page) = q.limit
                    /\ listing'.state = "more"
                    /\ listing'.cursor = page[Len(page)]
               ELSE /\ ids = sel
                    /\ listing'.state = "done"
                    /\ listing'.cursor = NoCursor

\* C11: a getAllTasks call with limit L whose filter and cursor select more
\* than L tasks returns the first L of them in the order of the sort, with
\* hasMore true and nextCursor the id of the last one; otherwise it returns
\* all of them in order, with hasMore false and no nextCursor; no page is
\* longer than L.
C11_PageOfLimit == [][PageStep]_vars

\* the listing went through a full page with a nextCursor and then got the
\* rest with hasMore false
C11_Witness ==
    /\ listing.state = "done"
    /\ listing.got # <<>>
    /\ Len(listing.got) > listing.q.limit

\* C12: every task a listing got is of a project that has the requester in
\* its members; a call with a projectId that is not a project of the
\* requester is answered 401 and gives no task; a requester without
\* projects gets an empty page with hasMore false, no nextCursor and total 0.
C12_ListingOfOwnProjects ==
    listing.state # "idle" =>
        /\ \A i \in 1..Len(listing.got) :
               Includes(projects[tasks[listing.got[i]].project].members,
                        listing.q.user)
        /\ (/\ listing.q.projectId # 0
            /\ listing.q.projectId \notin ProjectsOf(listing.q.user))
               => (resp.status = 401 /\ listing.got = <<>>)
        /\ (ProjectsOf(listing.q.user) = {} /\ resp.status = 200)
               => /\ listing.got = <<>>
                  /\ listing.state = "done"
                  /\ listing.cursor = NoCursor
                  /\ listing.total = 0

\* the text holds the term, whatever the case of the letters
Occurs(text, term) ==
    LET low(str) == [k \in 1..Len(str) |-> Lower(str[k])]
    IN  \E i \in 0..Len(text) :
            /\ i + Len(term) <= Len(text)
            /\ low(SubSeq(text, i + 1, i + Len(term))) = low(term)

\* 3 for the title, plus 2 for the description, plus 1 for the comments
ScoreOf(task, term) ==
    (IF Occurs(Chars(task.title), term) THEN 3 ELSE 0)
    + (IF task.description # Absent
           /\ Occurs(Chars(task.description), term) THEN 2 ELSE 0)
    + (IF \E i \in 1..Len(task.comments) :
              Occurs(Chars(task.comments[i].text), term) THEN 1 ELSE 0)

\* the search was answered with results
Searched == resp.op = "searchTasksText" /\ result.status = 200

\* C13: searchTasksText answers 400 to a projectId that is no ObjectId and
\* does not answer 200 to a projectId of a project that has not the caller
\* among its members.
C13_SearchOfOwnProjects ==
    resp.op = "searchTasksText" =>
        /\ resp.id = BadId => result.status = 400
        /\ (resp.id \in DOMAIN projects
            /\ ~Includes(projects[resp.id].members, resp.user))
               => result.status # 200

\* C19: the relevance score of every returned task is 3 if the title holds
\* the term, plus 2 if the description does, plus 1 if a comment does; it is
\* in 1..6, and the tasks that match in no field are not returned.
C19_ScoreIsAdditive ==
    Searched =>
        \A i \in 1..Len(result.results) :
            LET r == result.results[i]
                score == ScoreOf(tasks[r.id], result.query)
            IN  /\ score \in 1..6
                /\ r.shown => r.matchDetails.relevanceScore = score

\* a returned task matches in its title, its description and a comment
C19_Witness ==
    /\ Searched
    /\ \E i \in 1..Len(result.results) :
          /\ result.results[i].shown
          /\ result.results[i].matchDetails.relevanceScore = 6

\* C20: the results come by score, highest first, and by createdAt, latest
\* first, among equal scores.
C20_ByScoreThenCreatedAt ==
    Searched =>
        \A i \in 1..Len(result.results) : \A j \in 1..Len(result.results) :
            i < j =>
                LET a == tasks[result.results[i].id]
                    b == tasks[result.results[j].id]
                    sa == ScoreOf(a, result.query)
                    sb == ScoreOf(b, result.query)
                IN  sa > sb \/ (sa = sb /\ a.createdAt >= b.createdAt)

\* a task that matches in the title alone and an older one that matches in
\* description and comments tie at 3 and come in this order
C20_Witness ==
    /\ Searched
    /\ Len(result.results) = 2
    /\ result.results[1].matchDetails.matchedFields = <<"title">>
    /\ result.results[2].matchDetails.matchedFields
           = <<"description", "comments">>
    /\ tasks[result.results[1].id].createdAt
           > tasks[result.results[2].id].createdAt

\* the operations that are gated on a project
Gated ==
    {"getProjectById", "addMember", "removeMember", "createTask",
     "getTasksByProject"}

\* what the first step of a gated request does when its project is missing,
\* and which requests go on after their first step
GateStep ==
    /\ (/\ resp'.op \in Gated
        /\ nreq' # nreq \/ resp'.op = "getProjectById"
        /\ resp'.id \notin DOMAIN projects)
       => /\ resp'.status = 404
          /\ projects' = projects /\ tasks' = tasks /\ reqs' = reqs
          /\ events' = <<>>
    /\ \A r \in Slots :
          (reqs[r].pc = "idle" /\ reqs'[r].op \in Gated) =>
              IF reqs'[r].op = "createTask"
              THEN reqs'[r].doc.project \in DOMAIN projects
              ELSE reqs'[r].id \in DOMAIN projects

\* C14: getProjectById, addMember, removeMember, createTask and
\* getTasksByProject answer 404 to every caller when the project they name
\* does not exist, change nothing then, and go past their checks only for a
\* project that exists.
C14_ExistenceBeforeAuthorization == [][GateStep]_vars

\* a getTasksByProject on a project that does not exist was answered 404
C14_Witness ==
    /\ resp.op = "getTasksByProject" /\ resp.status = 404
    /\ resp.id \notin DOMAIN projects

\* what the steps of a createTask do
CreateStep ==
    /\ (resp'.op = "createTask" /\ nreq' # nreq) =>
          /\ resp'.status \in {404, 401}
          /\ resp'.status = 404 <=> resp'.id \notin DOMAIN projects
          /\ resp'.status = 401 =>
                 ~Includes(projects[resp'.id].members, resp'.user)
          /\ tasks' = tasks /\ reqs' = reqs /\ ntasks' = ntasks
          /\ events' = <<>>
    /\ \A r \in Slots : \A caller \in Users : \A body \in CreateBodies :
          (CreateTaskRead(r, caller, body, 1) /\ reqs'[r] # reqs[r]) =>
              /\ body.project \in DOMAIN projects
              /\ Includes(projects[body.project].members, caller)
              /\ reqs'[r].doc.project = body.project
              /\ reqs'[r].doc.status =
                     (IF body.status = Absent THEN "todo" ELSE body.status)
              /\ reqs'[r].doc.priority =
                     (IF body.priority = Absent THEN "medium"
                                                ELSE body.priority)
              /\ tasks' = tasks /\ events' = <<>>
    /\ \A r \in Slots : Saved(r, "createTask") =>
          /\ reqs[r].id \notin DOMAIN tasks
          /\ DOMAIN tasks' = DOMAIN tasks \cup {reqs[r].id}
          /\ tasks'[reqs[r].id] = reqs[r].doc
          /\ \A t \in DOMAIN tasks : tasks'[t] = tasks[t]
          /\ events' = <<>>
    /\ DOMAIN tasks' # DOMAIN tasks => \E r \in Slots : Saved(r, "createTask")

\* C15: createTask answers 404 when the project does not exist and 401 when
\* the caller is not in its members, and then creates no task and emits no
\* event; otherwise the task it inserts has the status and the priority of
\* the body, 'todo' and 'medium' where the body leaves them out.
C15_CreateTaskChecksAndDefaults == [][CreateStep]_vars

\* a task was created with a status given and the default priority, and a
\* caller who is not a member was refused
C15_Witness ==
    /\ resp.op = "createTask" /\ resp.status = 401
    /\ \E t \in DOMAIN tasks :
          tasks[t].status = "done" /\ tasks[t].priority = "medium"

\* the fields that updateTask can set
UpdateFieldNames == {"title", "description", "status", "priority", "dueDate"}

\* the body carries the field
Given(body, field) ==
    IF field = "dueDate" THEN body.dueDate # DateAbsent
                         ELSE body[field] # Absent

UpdateStep ==
    \A r \in Slots :
        Saved(r, "updateTask") =>
            LET tid == reqs[r].id
                body == reqs[r].input
                read == reqs[r].doc
            IN  /\ DOMAIN tasks' = DOMAIN tasks
                /\ \A t \in DOMAIN tasks : t # tid => tasks'[t] = tasks[t]
                /\ \A field \in UpdateFieldNames :
                      IF Given(body, field)
                      THEN \/ tasks'[tid][field] = body[field]
                           \/ /\ body[field] = read[field]
                              /\ tasks'[tid][field] = tasks[tid][field]
                      ELSE tasks'[tid][field] = tasks[tid][field]
                /\ tasks'[tid].project = tasks[tid].project
                /\ tasks'[tid].assignees = tasks[tid].assignees
                /\ tasks'[tid].comments = tasks[tid].comments
                /\ tasks'[tid].createdAt = tasks[tid].createdAt

Deleted(r) ==
    /\ reqs[r].op = "deleteTask" /\ reqs[r].pc = "delete"
    /\ resp'.op = "deleteTask" /\ resp'.status = 200

DeleteStep ==
    \A r \in Slots :
        Deleted(r) =>
            /\ Len(events') >= 1
            /\ events'[1] = Event("task:deleted", reqs[r].doc.project,
                                  [taskId |-> reqs[r].id,
                                   projectId |-> reqs[r].doc.project])

\* C17: a deleteTask answered 200 emits to the room of the task's project a
\* task:deleted event whose payload is the task id and the project id
C17_DeletedCarriesTaskAndProject == [][DeleteStep]_vars

\* the step is the re-fetch of the addComment in slot r, answered 200
Commented(r) ==
    /\ reqs[r].op = "addComment" /\ reqs[r].pc = "refetch"
    /\ resp'.op = "addComment" /\ resp'.status = 200

CommentStep ==
    \A r \in Slots :
        Commented(r) =>
            events' = <<Event("task:comment", reqs[r].doc.project,
                              [taskId |-> reqs[r].id,
                               comment |-> reqs[r].input])>>

\* C18: an addComment answered 200 emits exactly one task:comment event, to
\* the room of the task's project, with the task id and the comment that this
\* call appended, whatever other addComment calls do between its save and its
\* re-fetch
C18_EventCarriesOwnComment == [][CommentStep]_vars

\* socket s is in no presence map, in no room, and gets none of the events
NotPresent(s, sockets, online, global, emitted) ==
    /\ sockets[s].rooms = {}
    /\ sockets[s].userId = NoUser
    /\ \A u \in DOMAIN global : global[u].socketId # s
    /\ \A p \in DOMAIN online : \A u \in DOMAIN online[p] :
           online[p][u].socketId # s
    /\ \A i \in 1..Len(emitted) : s \notin Receivers(sockets, emitted[i])

RefusedStep ==
    /\ \A s \in Sessions : \A token \in Tokens :
           (/\ token = NoToken \/ token.secret # JwtSecret
            /\ Handshake(s, token))
           => /\ sock'[s].state = "refused"
              /\ onlineUsers' = onlineUsers
              /\ globalOnlineUsers' = globalOnlineUsers
              /\ events' = <<>>
    /\ \A s \in Sessions :
           sock[s].state = "refused" =>
               /\ sock'[s] = sock[s]
               /\ NotPresent(s, sock', onlineUsers', globalOnlineUsers',
                             events')

\* C21: a connection attempt without a token or with a token not signed with
\* the secret ends refused, with no map changed and no event emitted, and a
\* refused socket stays as it is: in no presence map, in no room, handling no
\* event and receiving none of the events emitted afterwards
C21_RefusedBeforeConnection == [][RefusedStep]_vars

\* a socket was refused, another one is open in a room and a presence event
\* has just been emitted to that room and to every connected socket
C21_Witness ==
    \E s, t \in Sessions :
        /\ sock[s].state = "refused"
        /\ sock[t].state = "open" /\ sock[t].rooms # {}
        /\ Len(events) = 2
        /\ Receivers(sock, events[2]) = {t}

\* C22: in every reachable state, for every open socket s and project P, the
\* member:kicked handler of s for P leaves the rooms of s, the per-project
\* maps and the global map as the project:leave handler of s for P does
C22_KickIsLeave ==
    \A s \in Sessions : \A projectId \in RoomIds :
        sock[s].state = "open" =>
            KickedRegistry(s, projectId) = LeaveRegistry(s, projectId)

\* the events that a task handler sends to the room of the task's project
TaskEventNames == {"task:created", "task:updated", "task:deleted",
                   "task:comment"}

\* the open sockets that are in the room of project p
JoinedTo(p) == {s \in Sessions : sock[s].state = "open" /\ p \in sock[s].rooms}

\* the task event that a handler answering with this status has emitted
EmittedBy(op, status) ==
    CASE op = "createTask" /\ status = 201 -> "task:created"
      [] op = "updateTask" /\ status = 200 -> "task:updated"
      [] op = "deleteTask" /\ status = 200 -> "task:deleted"
      [] op = "addComment" /\ status = 200 -> "task:comment"
      [] OTHER -> "none"

FanoutStep ==
    /\ \A r \in Slots : \A i \in 1..Len(events') :
           (/\ reqs[r].pc # "idle" /\ reqs'[r].pc = "idle"
            /\ events'[i].name \in TaskEventNames)
           => /\ events'[i].room = reqs[r].doc.project
              /\ Receivers(sock', events'[i]) = JoinedTo(reqs[r].doc.project)
              /\ events'[i].name = EmittedBy(resp'.op, resp'.status)
    /\ EmittedBy(resp'.op, resp'.status) # "none" =>
           Cardinality({i \in 1..Len(events') :
               events'[i].name = EmittedBy(resp'.op, resp'.status)}) = 1
    /\ (sock' # sock \/ \A r \in Slots : reqs[r].pc = "idle") =>
           \A i \in 1..Len(events') : events'[i].name \notin TaskEventNames

\* C24: a task:created, task:updated, task:deleted or task:comment event is
\* emitted once by the step that answers the request, to the room of the
\* task's project, and reaches exactly the open sockets that are in that room
\* in that step; no step of a socket (connect, join, disconnect) and no other
\* step carries a task event, so a socket that was not in the room, or not
\* connected, when the event was emitted does not get it afterwards
C24_RoomEventsReachTheJoined == [][FanoutStep]_vars

\* task:created has reached the first socket, which is in room 1, and not the
\* second one, which is open in room 2 only
C24_Witness ==
    /\ Len(events) >= 1
    /\ events[1].name = "task:created"
    /\ Receivers(sock, events[1]) = {1}
    /\ sock[2].state = "open" /\ sock[2].rooms = {2}

MemberEventStep ==
    \A i \in 1..Len(events') :
        events'[i].name \in {"member:added", "member:removed"} =>
            Receivers(sock', events'[i]) \subseteq
                JoinedTo(events'[i].payload.projectId)

\* C23: a member:added or member:removed event reaches only sockets that are
\* in the room of the project it is about
C23_MemberEventsToTheRoom == [][MemberEventStep]_vars

\* the presence:update event lists the user
ListsUser(event, userId) ==
    /\ event.name = "presence:update"
    /\ \E entry \in event.payload : entry.userId = userId

TwoJoinsStep ==
    \A s, t \in Sessions : \A projectId \in RoomIds :
        (/\ sock[t].state = "open"
         /\ projectId \in sock[t].rooms
         /\ Listed(sock[t].userId, projectId)
         /\ sock[s].userId # sock[t].userId
         /\ Join(s, projectId))
        => /\ Listed(sock[s].userId, projectId)'
           /\ Listed(sock[t].userId, projectId)'
           /\ onlineUsers'[projectId][sock[t].userId]
                  = onlineUsers[projectId][sock[t].userId]
           /\ events'[1].room = projectId
           /\ ListsUser(events'[1], sock[s].userId)
           /\ ListsUser(events'[1], sock[t].userId)

\* C25: the join handlers run one at a time; the project:join of a socket for
\* a room whose map holds the entry of another user's socket that is in the
\* room keeps that entry as it is, adds its own, and sends to the room a
\* presence:update that lists both users; so after two joins of different
\* users, in either order, both are in the map and in the last list sent
C25_BothJoinsKept == [][TwoJoinsStep]_vars

\* both users are in the map of room 1 and the list just sent to room 1 has
\* both of them
C25_Witness ==
    /\ Listed("u1", 1) /\ Listed("u2", 1)
    /\ Len(events) = 2 /\ events[1].room = 1
    /\ ListsUser(events[1], "u1") /\ ListsUser(events[1], "u2")

\* the number of times the listing got task t
TimesGot(t) == Cardinality({i \in 1..Len(listing.got) : listing.got[i] = t})

\* the tasks that were there before the listing began, are still there, and
\* pass the filter of the listing: the writes of the behaviour all lie between
\* the first page and the last one, no id is used twice and no write changes
\* the priority of a task
ThereThroughout ==
    {t \in DOMAIN tasks :
        /\ t <= PageTasks
        /\ listing.q.priority # Absent =>
               tasks[t].priority = listing.q.priority}

\* C26: when a listing in the default sort has followed nextCursor to its
\* end while tasks were created and deleted between its pages, it has got
\* every task that matched its filter from its first page to its last one
\* exactly once, and no task twice
C26_StableUnderWrites ==
    listing.state = "done" =>
        /\ \A t \in ThereThroughout : TimesGot(t) = 1
        /\ \A i \in 1..Len(listing.got) : TimesGot(listing.got[i]) = 1

\* a listing has ended after the task of its cursor was deleted and another
\* task was created between its pages
C26_Witness ==
    /\ listing.state = "done"
    /\ Len(listing.got) >= 2
    /\ listing.got[1] \notin DOMAIN tasks
    /\ \E t \in DOMAIN tasks : t > PageTasks
    /\ ThereThroughout # {}

\* the step is the first step of a request of user on project pid by one of
\* the four handlers, and the request is answered with this status at once
AnsweredAtOnce(user, pid, status) ==
    /\ resp'.user = user /\ resp'.id = pid /\ resp'.status = status
    /\ \/ resp'.op \in {"getProjectById", "getAllTasks"}
       \/ resp'.op \in {"createTask", "getTasksByProject"} /\ nreq' # nreq

\* the step is the first step of a createTask or getTasksByProject of user on
\* project pid that goes past its checks
GoesOn(user, pid) ==
    \E r \in Slots :
        /\ reqs[r].pc = "idle" /\ reqs'[r].user = user
        /\ \/ reqs'[r].op = "getTasksByProject" /\ reqs'[r].id = pid
           \/ reqs'[r].op = "createTask" /\ reqs'[r].doc.project = pid

CurrentMembersStep ==
    \A user \in Users : \A pid \in DOMAIN projects :
        IF Includes(projects[pid].members, user)
        THEN ~AnsweredAtOnce(user, pid, 401)
        ELSE /\ ~GoesOn(user, pid)
             /\ \A status \in {200, 201} : ~AnsweredAtOnce(user, pid, status)

\* C27: a createTask in P, a getTasksByProject(P), a getAllTasks with
\* projectId = P and a getProjectById(P) by a user who is not in the stored
\* members of P when the request is handled is not let through and not
\* answered 200; by a user who is in the stored members it is not answered 401
C27_CurrentMembership == [][CurrentMembersStep]_vars

\* the tasks of the requester's projects that pass every filter the query
\* carries
PassingFilters(q) ==
    {t \in DOMAIN tasks :
        /\ Includes(projects[tasks[t].project].members, q.user)
        /\ q.projectId # 0 => tasks[t].project = q.projectId
        /\ \A field \in {"status", "priority"} :
               q[field] # Absent => tasks[t][field] = q[field]
        /\ q.assignee # Absent =>
               \E i \in 1..Len(tasks[t].assignees) :
                   tasks[t].assignees[i] = q.assignee}

FilterStep ==
    (listing' # listing /\ resp'.status = 200) =>
        LET q == listing'.q
            ids == {listing'.got[i] : i \in 1..Len(listing'.got)}
        IN  /\ ids \subseteq PassingFilters(q)
            /\ listing.state = "idle" =>
                   IF Cardinality(PassingFilters(q)) <= q.limit
                   THEN ids = PassingFilters(q)
                   ELSE Cardinality(ids) = q.limit
            /\ listing'.state = "done" => ids = PassingFilters(q)

\* C28: every task that a getAllTasks call returns is of a project of the
\* requester and passes every filter given (status, priority, assignee); a
\* first call returns all of these tasks when they are at most limit, and
\* limit of them otherwise, and the pages of the default sort together return
\* all of them
C28_ExactlyTheMatching == [][FilterStep]_vars

\* a listing with status=done and priority=high has returned the one task
\* that is both, out of a collection with a task that is only one of the two
C28_Witness ==
    /\ listing.state = "done"
    /\ listing.q.status = "done" /\ listing.q.priority = "high"
    /\ Len(listing.got) = 1
    /\ \E t \in DOMAIN tasks :
           tasks[t].status = "done" /\ tasks[t].priority = "low"

TotalStep ==
    (listing' # listing /\ resp'.status = 200) =>
        /\ listing'.total = Cardinality(PassingFilters(listing'.q))
        /\ listing.state = "more" => listing'.total = listing.total
        /\ listing'.state = "done" => listing'.total = Len(listing'.got)

\* C29: the total of every answered getAllTasks call is the number of tasks
\* of the requester's projects that pass the filters, whatever the cursor and
\* the limit; the pages of one listing report the same total, and at the end
\* of the listing the total is the number of ids the pages have given
C29_TotalIsTheCount == [][TotalStep]_vars

\* list a is the beginning of list b
IsPrefix(a, b) == Len(a) <= Len(b) /\ SubSeq(b, 1, Len(a)) = a

AppendOnlyStep ==
    /\ \A t \in DOMAIN tasks \cap DOMAIN tasks' :
           /\ IsPrefix(tasks[t].comments, tasks'[t].comments)
           /\ tasks'[t].comments # tasks[t].comments =>
                  \E r \in Slots : Saved(r, "addComment") /\ reqs[r].id = t
    /\ \A r \in Slots :
           Saved(r, "addComment") =>
               /\ Len(tasks'[reqs[r].id].comments)
                      = Len(tasks[reqs[r].id].comments) + 1
               /\ tasks'[reqs[r].id].comments
                      [Len(tasks'[reqs[r].id].comments)] = reqs[r].input

\* C30: in every step that keeps a task, the comments stored before the step
\* are the beginning of the comments stored after it; only the save of an
\* addComment changes them, and it adds exactly one comment, its own, at the
\* end
C30_CommentsAppendOnly == [][AppendOnlyStep]_vars

\* two addComment calls and an updateTask have been saved on task 1
C30_Witness ==
    /\ 1 \in DOMAIN tasks
    /\ Len(tasks[1].comments) = 3
    /\ tasks[1].title = "b"

\* C31: in every state, every open socket's user is a key of the global
\* presence map; so the connection or the disconnection of another socket of
\* the same user does not take the user's entry away.
C31_ConnectedIsGloballyPresent ==
    \A s \in Sessions :
        sock[s].state = "open" => sock[s].userId \in DOMAIN globalOnlineUsers

\* the params and the bodies that the schemas of the two routes accept
ValidParams(params) == "id" \in DOMAIN params /\ params.id # BadId

ValidPutBody(body) ==
    /\ DOMAIN body \cap {"title", "description", "status", "priority"} # {}
    /\ "title" \in DOMAIN body => body.title # ""
    /\ "status" \in DOMAIN body => body.status \in Statuses
    /\ "priority" \in DOMAIN body => body.priority \in Priorities

ValidCommentBody(body) == "text" \in DOMAIN body /\ body.text # ""

\* what a step of a route does with input that is not valid
Rejected ==
    /\ resp'.status = 400
    /\ result'.status = 400 /\ result'.errors # {}
    /\ projects' = projects /\ tasks' = tasks /\ reqs' = reqs
    /\ events' = <<>>

\* the handler op ran once on task id as slot r, with the input given
Invoked(r, op, id, input) ==
    /\ resp'.status # 400
    /\ \A q \in Slots \ {r} : reqs'[q] = reqs[q]
    /\ IF id \in DOMAIN tasks
       THEN /\ reqs'[r].op = op /\ reqs'[r].pc = "save"
            /\ reqs'[r].id = id
            /\ reqs'[r].input = input
       ELSE resp'.status = 404 /\ reqs' = reqs

ValidateStep ==
    nreq' # nreq =>
    \A r \in Slots : \A id \in {1, MaxTasks + 1, BadId} :
        /\ \A body \in PutBodies :
              PutTask(r, [id |-> id], body) =>
                  IF ValidParams([id |-> id]) /\ ValidPutBody(body)
                  THEN Invoked(r, "updateTask", id,
                           [f \in {"title", "description", "status",
                                   "priority"} |->
                               IF f \in DOMAIN body THEN body[f] ELSE Absent]
                           @@ [dueDate |-> DateAbsent])
                  ELSE Rejected
        /\ \A body \in CommentBodies :
              PostComment(r, "u1", [id |-> id], body) =>
                  IF ValidParams([id |-> id]) /\ ValidCommentBody(body)
                  THEN Invoked(r, "addComment", id,
                               CommentOf("u1", body.text, now))
                  ELSE Rejected

\* C32: a request whose params or body the schema of its route does not
\* accept is answered 400 with a non-empty list of field errors, the handler
\* is not run, no record changes and no event is emitted; a request that the
\* schemas accept runs the handler once, with the known keys of the body and
\* none of the unknown ones.
C32_ValidationGatesTheHandler == [][ValidateStep]_vars

\* a body with a status outside the enum was answered 400 naming the field,
\* while an update that passed validation is in flight
C32_Witness ==
    /\ resp.status = 400 /\ resp.op = "updateTask"
    /\ result.status = 400 /\ result.errors = {"status"}
    /\ \E r \in Slots : reqs[r].op = "updateTask" /\ reqs[r].pc = "save"

\* a step that answers 400, 401 or 404 is the only step of its call
ErrorStep ==
    resp'.status \in {400, 401, 404} =>
        /\ projects' = projects
        /\ tasks' = tasks
        /\ events' = <<>>
        /\ reqs' = reqs

\* C33: a call of a project or task handler that answers 400, 401 or 404
\* answers in its first step, before any write: the step changes no project
\* and no task, emits no event, and ends no handler that took a step before.
C33_ErrorsChangeNothing == [][ErrorStep]_vars

\* an assignUser was answered 400 while the project has got a second member
\* and another handler is between its awaits
C33_Witness ==
    /\ resp.op = "assignUser" /\ resp.status = 400
    /\ Len(projects[1].members) = 2
    /\ \E r \in Slots : reqs[r].pc # "idle"

\* no value occurs at two positions of the list
NoDuplicates(list) ==
    \A i, j \in 1..Len(list) : list[i] = list[j] => i = j

\* C34: in every state, no stored task has the same user twice in its
\* assignee list, whatever createTask, assignUser and unassignUser calls ran
\* and however their steps interleaved.
C34_AssigneesAreDistinct ==
    \A tid \in DOMAIN tasks : NoDuplicates(tasks[tid].assignees)

\* C35: in every state, no project has the same user twice in its members
\* list, whatever members array createProject was given and however the
\* steps of addMember and removeMember calls interleaved.
C35_MembersAreDistinct ==
    \A pid \in DOMAIN projects : NoDuplicates(projects[pid].members)

\* C36: in every state, every open socket that is in the room of a project
\* is a socket of a user in the project's stored members list; so a
\* project:join of a non-member leaves the socket out of the room, and once a
\* removeMember has saved, the sockets of the removed user are out of it.
C36_RoomsHoldMembersOnly ==
    \A s \in Sessions : \A p \in DOMAIN projects :
        (sock[s].state = "open" /\ p \in sock[s].rooms)
        => Includes(projects[p].members, sock[s].userId)

\* the projects whose per-project map has an entry for the user
ListedIn(userId) ==
    {p \in DOMAIN onlineUsers : userId \in DOMAIN onlineUsers[p]}

\* C37: in every state, for every user of the global presence map and every
\* project P, the global entry's currentProject is P exactly when the
\* per-project map of P has an entry for the user, and at most one
\* per-project map has one.
C37_CurrentProjectIsTheListing ==
    \A u \in DOMAIN globalOnlineUsers :
        /\ \A p \in RoomIds :
              (globalOnlineUsers[u].currentProject = p) <=> (p \in ListedIn(u))
        /\ Cardinality(ListedIn(u)) <= 1

\* the per-project map of p, empty when the project has none yet
OnlineIn(online, p) == IF p \in DOMAIN online THEN online[p] ELSE <<>>

\* events holds the event name sent to room with that payload
Sent(evs, name, room, payload) ==
    \E i \in 1..Len(evs) : evs[i] = Event(name, room, payload)

PresenceStep ==
    /\ \A p \in RoomIds :
          OnlineIn(onlineUsers', p) # OnlineIn(onlineUsers, p)
          => Sent(events', "presence:update", p,
                  MapValues(OnlineIn(onlineUsers', p)))
    /\ globalOnlineUsers' # globalOnlineUsers
       => Sent(events', "global:presence:update", Global,
               MapValues(globalOnlineUsers'))
    /\ \A i \in 1..Len(events') :
          /\ events'[i].name = "presence:update"
             => events'[i].payload =
                    MapValues(OnlineIn(onlineUsers', events'[i].room))
          /\ events'[i].name = "global:presence:update"
             => events'[i].payload = MapValues(globalOnlineUsers')

\* C38: every step of a socket handler that changes the per-project map of a
\* project emits a presence:update to the project's room with the contents
\* of the map after the step, every step that changes the global map emits a
\* global:presence:update to all sockets with its contents after the step,
\* and no presence event carries anything but the contents after its step;
\* so the last presence:update sent to a room is the current map.
C38_ChangesAreBroadcast == [][PresenceStep]_vars

\* a handler took the entry of one user out of the map of project 1 and told
\* the room of the one that is left, both sockets being still connected
C38_Witness ==
    /\ \A s \in Sessions : sock[s].state = "open"
    /\ 1 \in DOMAIN onlineUsers /\ DOMAIN onlineUsers[1] = {"u2"}
    /\ Sent(events, "presence:update", 1, MapValues(onlineUsers[1]))
    /\ \E s \in Sessions : sock[s].userId = "u1" /\ 1 \notin sock[s].rooms

\* the handlers that take the id of a task
ByIdOps == {"getTaskById", "updateTask", "deleteTask", "assignUser",
            "unassignUser", "addComment"}

\* task tid was stored and is not: its id was generated, it is not in the
\* collection, and no createTask is about to insert it
Gone(tid) ==
    /\ tid \in 1..ntasks
    /\ tid \notin DOMAIN tasks
    /\ \A r \in Slots :
          ~(reqs[r].op = "createTask" /\ reqs[r].pc = "save"
            /\ reqs[r].id = tid)

\* the step is the first one of a call of one of these handlers on tid
StartsOn(tid) ==
    /\ nreq' = nreq + 1
    /\ \/ resp'.op \in ByIdOps /\ resp'.id = tid
       \/ \E r \in Slots : /\ reqs'[r] # reqs[r]
                            /\ reqs'[r].op \in ByIdOps
                            /\ reqs'[r].id = tid

PermanentStep ==
    \A tid \in 1..ntasks :
        Gone(tid) =>
            /\ tid \notin DOMAIN tasks'
            /\ StartsOn(tid) =>
                   (resp'.status = 404 /\ resp'.id = tid /\ reqs' = reqs)
            /\ (resp'.op = "getTasksByProject" /\ resp'.status = 200) =>
                   ~Includes(result'.tasks, tid)

\* C39: from a state where a task that was stored is gone, no step stores a
\* task of that id again, also not the save of an updateTask, assignUser,
\* unassignUser or addComment that read the task before it was deleted;
\* every getTaskById, updateTask, deleteTask, assignUser, unassignUser and
\* addComment issued on the id is answered 404 in its first step, and no
\* listing of the project returns the id.
C39_DeletionIsPermanent == [][PermanentStep]_vars

\* the save of an addComment that had read task 1 before it was deleted has
\* failed, and task 1 is not stored
C39_Witness ==
    /\ Gone(1)
    /\ resp.op = "addComment" /\ resp.id = 1 /\ resp.status = 500

\* the positions of events that hold a task:stats:changed
StatsAt(evs) == {i \in 1..Len(evs) : evs[i].name = "task:stats:changed"}

\* the answer is the one of a createTask, updateTask or deleteTask that
\* succeeded
ChangesStats(answer) ==
    \/ answer.op = "createTask" /\ answer.status = 201
    \/ answer.op \in {"updateTask", "deleteTask"} /\ answer.status = 200

StatsStep ==
    IF ChangesStats(resp')
    THEN \E r \in Slots :
            /\ reqs[r].pc # "idle" /\ reqs'[r].pc = "idle"
            /\ Len(events') = 2
            /\ events'[1].name = EmittedBy(resp'.op, resp'.status)
            /\ events'[1].room = reqs[r].doc.project
            /\ events'[2] = Event("task:stats:changed", Global,
                                  [projectId |-> reqs[r].doc.project])
            /\ Receivers(sock', events'[2]) =
                   {s \in Sessions : sock'[s].state = "open"}
    ELSE StatsAt(events') = {}

\* C40: the step that answers a createTask with 201, or an updateTask or a
\* deleteTask with 200, emits two events, first the task event to the room
\* of the task's project, then one task:stats:changed with the id of that
\* project, which reaches every open socket; no other step (an assignUser,
\* unassignUser or addComment, a request answered with an error, a step of a
\* socket) emits a task:stats:changed.
C40_StatsAfterTaskChanges == [][StatsStep]_vars

\* an updateTask was answered 200 and its task:stats:changed has reached the
\* two sockets, which are in no room
C40_Witness ==
    /\ resp.op = "updateTask" /\ resp.status = 200
    /\ Len(events) = 2
    /\ events[2].name = "task:stats:changed"
    /\ Receivers(sock, events[2]) = {1, 2}

====
